---------------------------- MODULE Spec2Model ----------------------------
(***************************************************************************)
(* Model of the jobly repository layer: the partial-update SQL builder,    *)
(* the company and job filter-search query builders, and the Company and   *)
(* Job repositories that compose them over a relational store.             *)
(*                                                                         *)
(* JavaScript values are records [t, n, s] (type tag, numeric part, string *)
(* part) so that values of different JavaScript types can be compared.     *)
(* A JavaScript object is the sequence of its own entries [k, v] in        *)
(* insertion order, which is the order Object.keys and for-in visit them.  *)
(***************************************************************************)
EXTENDS Integers, Sequences, FiniteSets, TLC

VARIABLES
    companies,  \* rows of the companies table
    jobs,       \* rows of the jobs table
    nextId,     \* next value of the jobs.id serial
    call,       \* the call being made: [op, data, jsToSql]
    result,     \* its outcome: [err, msg, val]; err = "pending" before it ran
    built,      \* builders the call invoked, in order
    sent        \* statements the call sent to the store, in order

vars == <<companies, jobs, nextId, call, result, built, sent>>

---------------------------------------------------------------------------
(* Bounds of the model. *)

\* most entries an enumerated payload holds
MaxKeys == 3

\* last value the jobs.id serial hands out
MaxJobId == 2

---------------------------------------------------------------------------
(* JavaScript values. *)

Str(s) == [s |-> s, t |-> "string", n |-> 0]
Num(n) == [s |-> "", t |-> "number", n |-> n]
Bool(b) == [s |-> "", t |-> "boolean", n |-> IF b THEN 1 ELSE 0]
Null == [s |-> "", t |-> "null", n |-> 0]
Undefined == [s |-> "", t |-> "undefined", n |-> 0]
NaN == [s |-> "NaN", t |-> "number", n |-> 0]

\* a number that is no integer: s is its spelling and n its integer part
Fraction == [s |-> "1.5", t |-> "number", n |-> 1]

\* the numbers whose decimal spelling the model's strings can hold
Numerals == {0, 1, 2, 3, 4, 5, 10, 500, 50000}

\* String(v), as a template literal `${v}` converts v
ToStr(v) ==
    CASE v.t = "string" -> v.s
      [] v.t = "number" -> IF v.s # "" THEN v.s ELSE ToString(v.n)
      [] v.t = "boolean" -> IF v.n = 1 THEN "true" ELSE "false"
      [] v.t = "null" -> "null"
      [] OTHER -> "undefined"

\* Number(s) of a string: the empty string is 0, a decimal numeral is its
\* number, anything else is NaN
StringToNumber(s) ==
    IF s = "" THEN Num(0)
    ELSE IF \E m \in Numerals : ToString(m) = s
         THEN Num(CHOOSE m \in Numerals : ToString(m) = s)
         ELSE IF s = Fraction.s THEN Fraction
         ELSE NaN

\* the unary plus +v
UnaryPlus(v) ==
    CASE v.t = "number" -> v
      [] v.t = "string" -> StringToNumber(v.s)
      [] v.t = "boolean" -> Num(v.n)
      [] v.t = "null" -> Num(0)
      [] OTHER -> NaN

\* ToBoolean(v), as `&&`, `||`, `!` and `if` convert v
Truthy(v) ==
    CASE v.t = "number" -> v.s # "NaN" /\ v.n # 0
      [] v.t = "string" -> v.s # ""
      [] v.t = "boolean" -> v.n = 1
      [] OTHER -> FALSE

\* a < b on two numbers (false when either is NaN)
LessThan(a, b) == a.s # "NaN" /\ b.s # "NaN" /\ a.n < b.n

---------------------------------------------------------------------------
(* JavaScript objects: sequences of own entries in insertion order. *)

Entry(k, v) == [v |-> v, k |-> k]

\* Object.keys(obj)
Keys(obj) == [i \in 1..Len(obj) |-> obj[i].k]

\* Object.values(obj)
Values(obj) == [i \in 1..Len(obj) |-> obj[i].v]

HasKey(obj, k) == \E i \in 1..Len(obj) : obj[i].k = k

\* obj[k]: undefined when obj has no such entry
Get(obj, k) ==
    IF HasKey(obj, k)
    THEN obj[CHOOSE i \in 1..Len(obj) : obj[i].k = k].v
    ELSE Undefined

\* strs.join(sep)
RECURSIVE Join(_, _)
Join(strs, sep) ==
    IF Len(strs) = 0 THEN ""
    ELSE IF Len(strs) = 1 THEN strs[1]
    ELSE strs[1] \o sep \o Join(Tail(strs), sep)

\* the objects with at most n entries, keys from ks without repetition,
\* the value of key k from vals[k]
RECURSIVE Objects(_, _, _)
Objects(ks, vals, n) ==
    IF n = 0 THEN {<<>>}
    ELSE LET shorter == Objects(ks, vals, n - 1)
         IN shorter \cup
            { Append(o, Entry(k, v)) :
                <<o, k, v>> \in
                    { <<o, k, v>> \in shorter \X ks \X UNION { vals[k] : k \in ks } :
                        /\ Len(o) = n - 1
                        /\ ~HasKey(o, k)
                        /\ v \in vals[k] } }

---------------------------------------------------------------------------
(* Outcomes of a call. *)

Pending == [err |-> "pending", msg |-> "", val |-> <<>>]
Return(v) == [err |-> "none", msg |-> "", val |-> v]
Throw(kind, msg) == [err |-> kind, msg |-> msg, val |-> <<>>]

---------------------------------------------------------------------------
(* helpers/sql.js: the partial update builder. *)

\* jsToSql[colName] || colName
ColumnOf(jsToSql, colName) ==
    LET c == Get(jsToSql, colName)
    IN IF Truthy(c) THEN ToStr(c) ELSE colName

\* SetFragment with the placeholders numbered from 0 (a fault to be detected)
SetFragmentFromZero(jsToSql, colName, idx) ==
    "\"" \o ColumnOf(jsToSql, colName) \o "\"=$" \o ToString(idx)

\* `"${jsToSql[colName] || colName}"=$${idx + 1}`, idx counted from 0
SetFragment(jsToSql, colName, idx) ==
    "\"" \o ColumnOf(jsToSql, colName) \o "\"=$" \o ToString(idx + 1)

\* sqlForPartialUpdate without its check for an empty payload (a fault to be
\* detected)
sqlForPartialUpdateUnchecked(dataToUpdate, jsToSql) ==
    LET keys == Keys(dataToUpdate)
        cols == [i \in 1..Len(keys) |-> SetFragment(jsToSql, keys[i], i - 1)]
    IN Return([cols |-> cols,
               setCols |-> Join(cols, ", "),
               values |-> Values(dataToUpdate)])

sqlForPartialUpdate(dataToUpdate, jsToSql) ==
    LET keys == Keys(dataToUpdate)
        cols == [i \in 1..Len(keys) |-> SetFragment(jsToSql, keys[i], i - 1)]
    IN IF Len(keys) = 0
       THEN Throw("BadRequestError", "No data")
       ELSE Return([cols |-> cols,
                    setCols |-> Join(cols, ", "),
                    values |-> Values(dataToUpdate)])

---------------------------------------------------------------------------
(* The filter query builders.  A WHERE fragment is kept with the text the  *)
(* code pushes and, beside it, what that text means to the store: the      *)
(* column, the comparison and the number of the placeholder it names.      *)

Fragment(col, op, idx) ==
    [col |-> col, op |-> op,
     text |-> col \o " " \o op \o " $" \o ToString(idx), param |-> idx]

\* the state of a builder's for-in loop
LoopStart == [idx |-> 1, whereQueries |-> <<>>, searchValues |-> <<>>, bad |-> ""]

Push(st, frag, v) ==
    [st EXCEPT !.whereQueries = Append(@, frag), !.searchValues = Append(@, v)]

Texts(whereQueries) == [i \in 1..Len(whereQueries) |-> whereQueries[i].text]

\* CompanyFilterBody with the two employee bounds exchanged (a fault to be
\* detected)
CompanyFilterBodySwapped(searchData, key, st) ==
    IF key = "nameLike"
    THEN Push(st, Fragment("name", "ILIKE", st.idx),
              Str("%" \o ToStr(Get(searchData, key)) \o "%"))
    ELSE IF key = "minEmployees"
    THEN Push(st, Fragment("num_employees", "<=", st.idx),
              UnaryPlus(Get(searchData, key)))
    ELSE IF key = "maxEmployees"
    THEN Push(st, Fragment("num_employees", ">=", st.idx),
              UnaryPlus(Get(searchData, key)))
    ELSE [st EXCEPT !.bad = key]

\* one pass of the loop body of the company builders, up to the idx++
CompanyFilterBody(searchData, key, st) ==
    IF key = "nameLike"
    THEN Push(st, Fragment("name", "ILIKE", st.idx),
              Str("%" \o ToStr(Get(searchData, key)) \o "%"))
    ELSE IF key = "minEmployees"
    THEN Push(st, Fragment("num_employees", ">=", st.idx),
              UnaryPlus(Get(searchData, key)))
    ELSE IF key = "maxEmployees"
    THEN Push(st, Fragment("num_employees", "<=", st.idx),
              UnaryPlus(Get(searchData, key)))
    ELSE [st EXCEPT !.bad = key]

\* for (let key in searchData) { ...; idx++ }, left by the throw
RECURSIVE CompanyFilterLoop(_, _, _)
CompanyFilterLoop(searchData, i, st) ==
    IF i > Len(searchData) \/ st.bad # "" THEN st
    ELSE LET after == CompanyFilterBody(searchData, searchData[i].k, st)
         IN CompanyFilterLoop(searchData, i + 1,
                IF after.bad # "" THEN after
                ELSE [after EXCEPT !.idx = @ + 1])

\* helpers/sql.js
sqlForFilterSearchCompanies(searchData) ==
    LET keys == Keys(searchData)
        st == CompanyFilterLoop(searchData, 1, LoopStart)
    IN IF Len(keys) = 0 THEN Throw("BadRequestError", "No data")
       ELSE IF st.bad # "" THEN Throw("BadRequestError", "Bad Key: " \o st.bad)
       ELSE Return([values |-> st.searchValues,
                    whereQueries |-> st.whereQueries,
                    whereQuery |-> Join(Texts(st.whereQueries), " AND ")])

CompanySelect(where) ==
    "SELECT handle, name, description, num_employees AS \"numEmployees\", "
    \o "logo_url AS \"logoUrl\" FROM companies WHERE " \o where
    \o " ORDER BY name"

\* models/company.js
_sqlForFilterSearchCompanies(searchData) ==
    LET keys == Keys(searchData)
        st == CompanyFilterLoop(searchData, 1, LoopStart)
    IN IF Len(keys) = 0 THEN Throw("BadRequestError", "No data")
       ELSE IF st.bad # "" THEN Throw("BadRequestError", "Bad Key: " \o st.bad)
       ELSE Return([whereQueries |-> st.whereQueries,
                    searchValues |-> st.searchValues,
                    querySql |-> CompanySelect(Join(Texts(st.whereQueries), " AND "))])

\* JobFilterBody passing over the keys it does not know (a fault to be
\* detected)
JobFilterBodyLenient(searchData, key, st) ==
    IF key = "title"
    THEN Push(st, Fragment("title", "ILIKE", st.idx),
              Str("%" \o ToStr(Get(searchData, key)) \o "%"))
    ELSE IF key = "minSalary"
    THEN Push(st, Fragment("salary", ">=", st.idx),
              UnaryPlus(Get(searchData, key)))
    ELSE IF key = "hasEquity"
    THEN IF Get(searchData, "hasEquity") = Str("true")
         THEN Push(st, Fragment("equity", ">", st.idx), Num(0))
         ELSE st
    ELSE st

\* JobFilterBody testing hasEquity for truthiness instead of === 'true' (a
\* fault to be detected)
JobFilterBodyTruthy(searchData, key, st) ==
    IF key = "title"
    THEN Push(st, Fragment("title", "ILIKE", st.idx),
              Str("%" \o ToStr(Get(searchData, key)) \o "%"))
    ELSE IF key = "minSalary"
    THEN Push(st, Fragment("salary", ">=", st.idx),
              UnaryPlus(Get(searchData, key)))
    ELSE IF key = "hasEquity"
    THEN IF Truthy(Get(searchData, "hasEquity"))
         THEN Push(st, Fragment("equity", ">", st.idx), Num(0))
         ELSE st
    ELSE [st EXCEPT !.bad = key]

\* one pass of the loop body of the job builder, up to the idx++
JobFilterBody(searchData, key, st) ==
    IF key = "title"
    THEN Push(st, Fragment("title", "ILIKE", st.idx),
              Str("%" \o ToStr(Get(searchData, key)) \o "%"))
    ELSE IF key = "minSalary"
    THEN Push(st, Fragment("salary", ">=", st.idx),
              UnaryPlus(Get(searchData, key)))
    ELSE IF key = "hasEquity"
    THEN IF Get(searchData, "hasEquity") = Str("true")
         THEN Push(st, Fragment("equity", ">", st.idx), Num(0))
         ELSE st
    ELSE [st EXCEPT !.bad = key]

RECURSIVE JobFilterLoop(_, _, _)
JobFilterLoop(searchData, i, st) ==
    IF i > Len(searchData) \/ st.bad # "" THEN st
    ELSE LET after == JobFilterBody(searchData, searchData[i].k, st)
         IN JobFilterLoop(searchData, i + 1,
                IF after.bad # "" THEN after
                ELSE [after EXCEPT !.idx = @ + 1])

JobSelect(where) ==
    "SELECT id, title, salary, equity, company_handle AS \"companyHandle\", "
    \o "c.name As \"companyName\" FROM jobs JOIN companies AS c on "
    \o "company_handle=c.handle WHERE " \o where \o " ORDER BY c.name"

\* _sqlForFilterSearchJobs without its check for an empty payload (a fault to
\* be detected)
_sqlForFilterSearchJobsUnchecked(searchData) ==
    LET st == JobFilterLoop(searchData, 1, LoopStart)
    IN IF st.bad # "" THEN Throw("BadRequestError", "Bad Key: " \o st.bad)
       ELSE Return([whereQueries |-> st.whereQueries,
                    searchValues |-> st.searchValues,
                    querySql |-> JobSelect(Join(Texts(st.whereQueries), " AND "))])

\* models/job.js
_sqlForFilterSearchJobs(searchData) ==
    LET keys == Keys(searchData)
        st == JobFilterLoop(searchData, 1, LoopStart)
    IN IF Len(keys) = 0 THEN Throw("BadRequestError", "No data")
       ELSE IF st.bad # "" THEN Throw("BadRequestError", "Bad Key: " \o st.bad)
       ELSE Return([whereQueries |-> st.whereQueries,
                    searchValues |-> st.searchValues,
                    querySql |-> JobSelect(Join(Texts(st.whereQueries), " AND "))])

---------------------------------------------------------------------------
(* The store behind db.query.  A table is the set of its rows, a row a     *)
(* record of JavaScript values (NULL is null).  jobs.company_handle refers *)
(* to companies.handle and a company's jobs are deleted with it.           *)

\* a query parameter as the driver sends it: undefined goes as NULL
Param(v) == IF v = Undefined THEN Null ELSE v

\* a statement as handed to db.query
Statement(text, values) == [values |-> values, text |-> text]

\* what a call leaves behind: the tables, its result, the builders it invoked
\* and the statements it sent
Outcome(cs, js, id, res, blt, snt) ==
    [companies |-> cs, jobs |-> js, nextId |-> id,
     result |-> res, built |-> blt, sent |-> snt]

\* a call that left the store as it found it
Untouched(res, blt, snt) == Outcome(companies, jobs, nextId, res, blt, snt)

\* a NUMERIC column as the driver returns it: a string, or null
Numeric(v) == IF v = Null THEN Null ELSE Str(ToStr(v))

\* job row as RETURNING id, title, salary, equity, company_handle AS
\* "companyHandle" gives it
JobRecord(j) ==
    [id |-> j.id, title |-> j.title, salary |-> j.salary,
     equity |-> Numeric(j.equity), companyHandle |-> j.companyHandle]

\* the sequences that list every element of the set rows once
Orderings(rows) ==
    { q \in [1..Cardinality(rows) -> rows] :
        \A i, j \in 1..Cardinality(rows) : i # j => q[i] # q[j] }

\* the collation order of the names the model uses
NameOrder == <<"Anet", "Bay", "Cove", "Net">>

NameRank(name) == CHOOSE i \in 1..Len(NameOrder) : NameOrder[i] = name.s

\* the letters of the strings the model matches with ILIKE, in lower case
LowerLetters(s) ==
    CASE s = "Net" -> <<"n", "e", "t">>
      [] s = "net" -> <<"n", "e", "t">>
      [] s = "Anet" -> <<"a", "n", "e", "t">>
      [] s = "Bay" -> <<"b", "a", "y">>
      [] s = "Cove" -> <<"c", "o", "v", "e">>
      [] s = "dev" -> <<"d", "e", "v">>
      [] s = "Dev" -> <<"d", "e", "v">>
      [] s = "ops" -> <<"o", "p", "s">>
      [] s = "DevOps" -> <<"d", "e", "v", "o", "p", "s">>
      [] s = "" -> <<>>

SearchTerms == {"net", "dev", "ops", ""}

\* whether the letters part occur in the letters whole, side by side
Contains(whole, part) ==
    \E at \in 0..(Len(whole) - Len(part)) :
        \A i \in 1..Len(part) : whole[at + i] = part[i]

\* text ILIKE pattern, for a pattern %term%
ILike(text, pattern) ==
    LET term == CHOOSE x \in SearchTerms : "%" \o x \o "%" = pattern
    IN Contains(LowerLetters(text), LowerLetters(term))

\* the field of a row that a column of a WHERE fragment names
Column(row, col) ==
    CASE col = "name" -> row.name
      [] col = "num_employees" -> row.numEmployees
      [] col = "title" -> row.title
      [] col = "salary" -> row.salary
      [] col = "equity" -> row.equity

\* whether a row satisfies one WHERE fragment (a comparison with NULL does not)
Satisfies(row, frag, values) ==
    LET have == Column(row, frag.col)
        want == values[frag.param]
    IN /\ have # Null
       /\ CASE frag.op = "ILIKE" -> ILike(have.s, want.s)
            [] frag.op = ">=" -> have.n >= want.n
            [] frag.op = "<=" -> have.n <= want.n
            [] frag.op = ">" -> have.n > want.n

\* whether the store accepts a filter statement: it has a predicate, its
\* placeholders are exactly $1..$n for the n values bound, and no number
\* bound is NaN
WellFormed(whereQueries, values) ==
    /\ Len(whereQueries) > 0
    /\ { whereQueries[i].param : i \in 1..Len(whereQueries) } = 1..Len(values)
    /\ \A i \in 1..Len(values) : values[i] # NaN

\* the rows of a table that satisfy every fragment
Selected(rows, whereQueries, values) ==
    { r \in rows : \A i \in 1..Len(whereQueries) : Satisfies(r, whereQueries[i], values) }

StoreFault(msg) == Throw("StoreFault", msg)

\* whether the store takes the parameter v for the integer column jobs.id
Integral(v) == v = Null \/ (v.t = "number" /\ v.s = "")

\* the fault of a statement that compares jobs.id with a parameter that is
\* no integer
NotIntegral == StoreFault("invalid input syntax for type integer")

\* the answer of the store to a statement that found no row: rows[0] is
\* undefined
NoRow == [err |-> "no row", msg |-> "", val |-> <<>>]

\* the field of a row that a column of a SET list names
FieldOf(col) ==
    CASE col = "num_employees" -> "numEmployees"
      [] col = "logo_url" -> "logoUrl"
      [] col = "company_handle" -> "companyHandle"
      [] col \in {"handle", "name", "description", "id", "title", "salary", "equity"} -> col
      [] OTHER -> "no such column"

\* the columns the SET list of an update of row names, payload key by key
SetColumns(data, jsToSql) ==
    [i \in 1..Len(data) |-> FieldOf(ColumnOf(jsToSql, data[i].k))]

\* row after UPDATE ... SET of the payload's columns to the payload's values
Assigned(row, data, jsToSql) ==
    LET cols == SetColumns(data, jsToSql)
    IN [f \in DOMAIN row |->
            IF \E i \in 1..Len(cols) : cols[i] = f
            THEN Param(data[CHOOSE i \in 1..Len(cols) : cols[i] = f].v)
            ELSE row[f]]


---------------------------------------------------------------------------
(* models/company.js.  Each operation is the set of the outcomes the call  *)
(* can have from the current store.                                         *)

CompanyReturning ==
    "RETURNING handle, name, description, num_employees AS \"numEmployees\", "
    \o "logo_url AS \"logoUrl\""

Company_create(data) ==
    LET handle == Get(data, "handle")
        check == Statement("SELECT handle FROM companies WHERE handle = $1",
                           <<Param(handle)>>)
        duplicateCheck == { c \in companies : c.handle = Param(handle) }
        row == [name |-> Param(Get(data, "name")),
                numEmployees |-> Param(Get(data, "numEmployees")),
                handle |-> Param(handle),
                logoUrl |-> Param(Get(data, "logoUrl")),
                description |-> Param(Get(data, "description"))]
        insert == Statement(
            "INSERT INTO companies(handle, name, description, num_employees, "
            \o "logo_url) VALUES ($1, $2, $3, $4, $5) " \o CompanyReturning,
            <<row.handle, row.name, row.description, row.numEmployees, row.logoUrl>>)
    IN IF duplicateCheck # {}
       THEN { Untouched(Throw("BadRequestError",
                              "Duplicate company: " \o ToStr(handle)),
                        <<>>, <<check>>) }
       ELSE { Outcome(companies \cup {row}, jobs, nextId,
                      Return(row), <<>>, <<check, insert>>) }

Company_remove(handle) ==
    LET delete == Statement("DELETE FROM companies WHERE handle = $1 RETURNING handle",
                            <<Param(handle)>>)
        deleted == { c \in companies : c.handle = Param(handle) }
    IN IF deleted = {}
       THEN { Untouched(Throw("NotFoundError", "No company: " \o ToStr(handle)),
                        <<>>, <<delete>>) }
       ELSE { Outcome(companies \ deleted,
                      { j \in jobs : j.companyHandle # Param(handle) },
                      nextId, Return(Undefined), <<>>, <<delete>>) }

\* the answers the store can give to a company filter statement: a fault, or
\* the selected rows ORDER BY name
CompanyFilterAnswers(built_) ==
    IF ~WellFormed(built_.whereQueries, built_.searchValues)
    THEN { StoreFault("malformed statement") }
    ELSE { Return(q) :
            q \in { o \in Orderings(Selected(companies, built_.whereQueries,
                                             built_.searchValues)) :
                      \A i, j \in 1..Len(o) :
                          i < j => NameRank(o[i].name) <= NameRank(o[j].name) } }

\* Company.filter with the comparison of minEmployees and maxEmployees made
\* after the statement was sent (a fault to be detected)
Company_filterLate(searchParams) ==
    LET minEmployees == Get(searchParams, "minEmployees")
        maxEmployees == Get(searchParams, "maxEmployees")
        builder == _sqlForFilterSearchCompanies(searchParams)
    IN IF builder.err # "none"
       THEN { Untouched(builder, <<"_sqlForFilterSearchCompanies">>, <<>>) }
       ELSE { Untouched(
                IF Truthy(minEmployees) /\ Truthy(maxEmployees)
                   /\ LessThan(maxEmployees, minEmployees)
                THEN Throw("BadRequestError",
                    "maxEmployees search parameter must be greater than minEmployees")
                ELSE IF companiesRes.err = "none" /\ Len(companiesRes.val) = 0
                THEN Throw("NotFoundError",
                           "No companies found with search criteria: [object Object]")
                ELSE companiesRes,
                <<"_sqlForFilterSearchCompanies">>,
                <<Statement(builder.val.querySql, builder.val.searchValues)>>) :
              companiesRes \in CompanyFilterAnswers(builder.val) }

Company_filter(searchParams) ==
    LET minEmployees == Get(searchParams, "minEmployees")
        maxEmployees == Get(searchParams, "maxEmployees")
        builder == _sqlForFilterSearchCompanies(searchParams)
    IN IF Truthy(minEmployees) /\ Truthy(maxEmployees)
          /\ LessThan(maxEmployees, minEmployees)
       THEN { Untouched(Throw("BadRequestError",
                "maxEmployees search parameter must be greater than minEmployees"),
                <<>>, <<>>) }
       ELSE IF builder.err # "none"
       THEN { Untouched(builder, <<"_sqlForFilterSearchCompanies">>, <<>>) }
       ELSE { Untouched(
                IF companiesRes.err = "none" /\ Len(companiesRes.val) = 0
                THEN Throw("NotFoundError",
                           "No companies found with search criteria: [object Object]")
                ELSE companiesRes,
                <<"_sqlForFilterSearchCompanies">>,
                <<Statement(builder.val.querySql, builder.val.searchValues)>>) :
              companiesRes \in CompanyFilterAnswers(builder.val) }

Company_findAll ==
    LET select == Statement(
            "SELECT handle, name, description, num_employees AS \"numEmployees\", "
            \o "logo_url AS \"logoUrl\" FROM companies ORDER BY name", <<>>)
    IN { Untouched(Return(o), <<>>, <<select>>) :
            o \in { q \in Orderings(companies) :
                      \A i, j \in 1..Len(q) :
                          i < j => NameRank(q[i].name) <= NameRank(q[j].name) } }

Company_get(handle) ==
    LET select == Statement(
            "SELECT handle, name, description, num_employees AS \"numEmployees\", "
            \o "logo_url AS \"logoUrl\" FROM companies WHERE handle = $1",
            <<Param(handle)>>)
        found == { c \in companies : c.handle = Param(handle) }
    IN IF found = {}
       THEN { Untouched(Throw("NotFoundError", "No company: " \o ToStr(handle)),
                        <<>>, <<select>>) }
       ELSE { Untouched(Return(company), <<>>, <<select>>) : company \in found }

\* CompanyJsToSql with the two columns exchanged (a fault to be detected)
CompanyJsToSqlSwapped ==
    <<Entry("numEmployees", Str("logo_url")), Entry("logoUrl", Str("num_employees"))>>

\* the translation map Company.update hands to sqlForPartialUpdate
CompanyJsToSql ==
    <<Entry("numEmployees", Str("num_employees")), Entry("logoUrl", Str("logo_url"))>>

\* the answers the store can give to the UPDATE of the company handle: no
\* row, the row after the SET list, or a fault when the SET list names no
\* column of companies, or leaves the row without a handle, with the handle
\* of another row, or with jobs that refer to the handle it had
CompanyUpdateAnswers(handle, data) ==
    LET cols == SetColumns(data, CompanyJsToSql)
        found == { c \in companies : c.handle = Param(handle) }
    IN IF \E i \in 1..Len(cols) : cols[i] \notin {"handle", "name", "description",
                                                  "numEmployees", "logoUrl"}
       THEN { Untouched(StoreFault("no such column"), <<>>, <<>>) }
       ELSE IF found = {}
       THEN { Untouched(NoRow, <<>>, <<>>) }
       ELSE { LET new == Assigned(old, data, CompanyJsToSql)
              IN IF \/ new.handle = Null
                    \/ \E c \in companies \ {old} : c.handle = new.handle
                    \/ /\ new.handle # old.handle
                       /\ \E j \in jobs : j.companyHandle = old.handle
                 THEN Untouched(StoreFault("constraint violated"), <<>>, <<>>)
                 ELSE Outcome((companies \ {old}) \cup {new}, jobs, nextId,
                              Return(new), <<>>, <<>>) :
              old \in found }

\* Company.update without its check for a missing row (a fault to be
\* detected)
Company_updateUnfound(handle, data) ==
    LET builder == sqlForPartialUpdate(data, CompanyJsToSql)
        handleVarIdx == "$" \o ToString(Len(builder.val.values) + 1)
        querySql == "UPDATE companies SET " \o builder.val.setCols
                    \o " WHERE handle = " \o handleVarIdx \o " " \o CompanyReturning
        update == Statement(querySql,
                            [i \in 1..Len(builder.val.values) |-> Param(builder.val.values[i])]
                            \o <<Param(handle)>>)
    IN IF builder.err # "none"
       THEN { Untouched(builder, <<"sqlForPartialUpdate">>, <<>>) }
       ELSE { [o EXCEPT !.built = <<"sqlForPartialUpdate">>,
                        !.sent = <<update>>,
                        !.result = IF o.result.err = "no row"
                                   THEN Return(Undefined)
                                   ELSE o.result] :
              o \in CompanyUpdateAnswers(handle, data) }

Company_update(handle, data) ==
    LET builder == sqlForPartialUpdate(data, CompanyJsToSql)
        handleVarIdx == "$" \o ToString(Len(builder.val.values) + 1)
        querySql == "UPDATE companies SET " \o builder.val.setCols
                    \o " WHERE handle = " \o handleVarIdx \o " " \o CompanyReturning
        update == Statement(querySql,
                            [i \in 1..Len(builder.val.values) |-> Param(builder.val.values[i])]
                            \o <<Param(handle)>>)
    IN IF builder.err # "none"
       THEN { Untouched(builder, <<"sqlForPartialUpdate">>, <<>>) }
       ELSE { [o EXCEPT !.built = <<"sqlForPartialUpdate">>,
                        !.sent = <<update>>,
                        !.result = IF o.result.err = "no row"
                                   THEN Throw("NotFoundError",
                                              "No company: " \o ToStr(handle))
                                   ELSE o.result] :
              o \in CompanyUpdateAnswers(handle, data) }

---------------------------------------------------------------------------
(* models/job.js *)

JobReturning ==
    "RETURNING id, title, salary, equity, company_handle AS \"companyHandle\""

\* the answers the store can give to the INSERT of a job: the referenced
\* company must exist; the serial has moved on either way
JobInsertAnswers(row) ==
    IF \E c \in companies : c.handle = row.companyHandle
    THEN { Outcome(companies, jobs \cup {row}, nextId + 1,
                   Return(JobRecord(row)), <<>>, <<>>) }
    ELSE { Outcome(companies, jobs, nextId + 1,
                   StoreFault("jobs.company_handle refers to no company"),
                   <<>>, <<>>) }

\* Job.create without its duplicate check (a fault to be detected)
Job_createUnchecked(data) ==
    LET row == [id |-> Num(nextId),
                title |-> Param(Get(data, "title")),
                salary |-> Param(Get(data, "salary")),
                equity |-> Param(Get(data, "equity")),
                companyHandle |-> Param(Get(data, "companyHandle"))]
        insert == Statement(
            "INSERT INTO jobs(title, salary, equity, company_handle) "
            \o "VALUES ($1, $2, $3, $4) " \o JobReturning,
            <<row.title, row.salary, row.equity, row.companyHandle>>)
    IN { [o EXCEPT !.sent = <<insert>>] : o \in JobInsertAnswers(row) }

Job_create(data) ==
    LET title == Get(data, "title")
        companyHandle == Get(data, "companyHandle")
        check == Statement("SELECT title FROM jobs WHERE company_handle=$1 AND title=$2",
                           <<Param(companyHandle), Param(title)>>)
        duplicateCheck == { j \in jobs : /\ j.companyHandle = Param(companyHandle)
                                         /\ j.title = Param(title) }
        row == [id |-> Num(nextId),
                title |-> Param(title),
                salary |-> Param(Get(data, "salary")),
                equity |-> Param(Get(data, "equity")),
                companyHandle |-> Param(companyHandle)]
        insert == Statement(
            "INSERT INTO jobs(title, salary, equity, company_handle) "
            \o "VALUES ($1, $2, $3, $4) " \o JobReturning,
            <<row.title, row.salary, row.equity, row.companyHandle>>)
    IN IF duplicateCheck # {}
       THEN { Untouched(Throw("BadRequestError",
                              "Duplicate job: " \o ToStr(title) \o " at "
                              \o ToStr(companyHandle)),
                        <<>>, <<check>>) }
       ELSE { [o EXCEPT !.sent = <<check, insert>>] : o \in JobInsertAnswers(row) }

Job_remove(id) ==
    LET delete == Statement("DELETE FROM jobs WHERE id = $1 RETURNING id",
                            <<Param(id)>>)
        deleted == { j \in jobs : j.id = Param(id) }
    IN IF ~Integral(Param(id))
       THEN { Untouched(NotIntegral, <<>>, <<delete>>) }
       ELSE IF deleted = {}
       THEN { Untouched(Throw("NotFoundError", "No job with ID: " \o ToStr(id)),
                        <<>>, <<delete>>) }
       ELSE { Outcome(companies, jobs \ deleted, nextId,
                      Return([id |-> Param(id)]), <<>>, <<delete>>) }

\* the name of the company a job is joined to
CompanyName(j) == (CHOOSE c \in companies : c.handle = j.companyHandle).name

\* job row as the filter statement selects it
JobFilterRecord(j) ==
    [id |-> j.id, title |-> j.title, salary |-> j.salary,
     equity |-> Numeric(j.equity), companyHandle |-> j.companyHandle,
     companyName |-> CompanyName(j)]

\* the answers the store can give to a job filter statement: a fault, or the
\* selected rows ORDER BY c.name, rows of one company in any order
JobFilterAnswers(built_) ==
    IF ~WellFormed(built_.whereQueries, built_.searchValues)
    THEN { StoreFault("malformed statement") }
    ELSE { Return([i \in 1..Len(q) |-> JobFilterRecord(q[i])]) :
            q \in { o \in Orderings(Selected(jobs, built_.whereQueries,
                                             built_.searchValues)) :
                      \A i, j \in 1..Len(o) :
                          i < j => NameRank(CompanyName(o[i]))
                                     <= NameRank(CompanyName(o[j])) } }

\* Job.filter without its check for an empty result (a fault to be detected)
Job_filterEmpty(searchParams) ==
    LET builder == _sqlForFilterSearchJobs(searchParams)
    IN IF builder.err # "none"
       THEN { Untouched(builder, <<"_sqlForFilterSearchJobs">>, <<>>) }
       ELSE { Untouched(jobsRes,
                        <<"_sqlForFilterSearchJobs">>,
                        <<Statement(builder.val.querySql, builder.val.searchValues)>>) :
              jobsRes \in JobFilterAnswers(builder.val) }

Job_filter(searchParams) ==
    LET builder == _sqlForFilterSearchJobs(searchParams)
    IN IF builder.err # "none"
       THEN { Untouched(builder, <<"_sqlForFilterSearchJobs">>, <<>>) }
       ELSE { Untouched(
                IF jobsRes.err = "none" /\ Len(jobsRes.val) = 0
                THEN Throw("NotFoundError",
                           "No jobs found with search criteria: [object Object]")
                ELSE jobsRes,
                <<"_sqlForFilterSearchJobs">>,
                <<Statement(builder.val.querySql, builder.val.searchValues)>>) :
              jobsRes \in JobFilterAnswers(builder.val) }

\* the collation order of the titles the model uses
TitleOrder == <<"dev", "ops", "qa">>

TitleRank(title) == CHOOSE i \in 1..Len(TitleOrder) : TitleOrder[i] = title.s

\* job row as SELECT id, title, salary, equity gives it
JobOfCompanyRecord(j) ==
    [id |-> j.id, title |-> j.title, salary |-> j.salary, equity |-> Numeric(j.equity)]

\* Job.getJobsOfCompany without the ORDER BY title (a fault to be detected)
Job_getJobsOfCompanyUnsorted(handle) ==
    LET select == Statement(
            "SELECT id, title, salary, equity FROM jobs WHERE company_handle=$1",
            <<Param(handle)>>)
        found == { j \in jobs : j.companyHandle = Param(handle) }
    IN IF found = {}
       THEN { Untouched(Throw("NotFoundError", "No jobs at: " \o ToStr(handle)),
                        <<>>, <<select>>) }
       ELSE { Untouched(Return([i \in 1..Len(o) |-> JobOfCompanyRecord(o[i])]),
                        <<>>, <<select>>) : o \in Orderings(found) }

Job_getJobsOfCompany(handle) ==
    LET select == Statement(
            "SELECT id, title, salary, equity FROM jobs WHERE company_handle=$1 "
            \o "ORDER BY title",
            <<Param(handle)>>)
        found == { j \in jobs : j.companyHandle = Param(handle) }
        sorted == { o \in Orderings(found) :
                      \A i, j \in 1..Len(o) :
                          i < j => TitleRank(o[i].title) <= TitleRank(o[j].title) }
    IN IF found = {}
       THEN { Untouched(Throw("NotFoundError", "No jobs at: " \o ToStr(handle)),
                        <<>>, <<select>>) }
       ELSE { Untouched(Return([i \in 1..Len(o) |-> JobOfCompanyRecord(o[i])]),
                        <<>>, <<select>>) : o \in sorted }

\* JobGetRecord with the equity as the number stored, not as the driver
\* returns a NUMERIC (a fault to be detected)
JobGetRecordRaw(j) ==
    [title |-> j.title, salary |-> j.salary, equity |-> j.equity,
     companyHandle |-> j.companyHandle]

\* job row as SELECT title, salary, equity, company_handle AS "companyHandle"
\* gives it
JobGetRecord(j) ==
    [title |-> j.title, salary |-> j.salary, equity |-> Numeric(j.equity),
     companyHandle |-> j.companyHandle]

Job_get(id) ==
    LET select == Statement(
            "SELECT title, salary, equity, company_handle AS \"companyHandle\" "
            \o "FROM jobs WHERE id=$1",
            <<Param(id)>>)
        found == { j \in jobs : j.id = Param(id) }
    IN IF ~Integral(Param(id))
       THEN { Untouched(NotIntegral, <<>>, <<select>>) }
       ELSE IF found = {}
       THEN { Untouched(Throw("NotFoundError", "No jobs with ID: " \o ToStr(id)),
                        <<>>, <<select>>) }
       ELSE { Untouched(Return(JobGetRecord(job)), <<>>, <<select>>) : job \in found }

\* the answers of the store to SELECT ... FROM jobs ORDER BY company_handle:
\* jobs of one company in any order
Job_findAll ==
    LET select == Statement(
            "SELECT title, salary, equity, company_handle AS \"companyHandle\" "
            \o "FROM jobs ORDER BY company_handle", <<>>)
        handleOrder == <<"c1", "c2", "c3">>
        rank(j) == CHOOSE i \in 1..Len(handleOrder) : handleOrder[i] = j.companyHandle.s
    IN { Untouched(Return([i \in 1..Len(o) |-> JobGetRecord(o[i])]), <<>>, <<select>>) :
            o \in { q \in Orderings(jobs) :
                      \A i, j \in 1..Len(q) : i < j => rank(q[i]) <= rank(q[j]) } }

\* the translation map Job.update hands to sqlForPartialUpdate
JobJsToSql == <<Entry("companyHandle", Str("company_handle"))>>

\* the answers the store can give to the UPDATE of the job id: no row, the
\* row after the SET list, or a fault when the SET list names no column of
\* jobs, or leaves the row without an id, with the id of another row, or
\* with a company_handle that refers to no company, or when the id asked for
\* is no integer; a row left without a company_handle is accepted or
\* refused, as the column is declared
JobUpdateAnswers(id, data) ==
    LET cols == SetColumns(data, JobJsToSql)
        found == { j \in jobs : j.id = Param(id) }
    IN IF \E i \in 1..Len(cols) : cols[i] \notin {"id", "title", "salary", "equity",
                                                  "companyHandle"}
       THEN { Untouched(StoreFault("no such column"), <<>>, <<>>) }
       ELSE IF ~Integral(Param(id))
       THEN { Untouched(NotIntegral, <<>>, <<>>) }
       ELSE IF found = {}
       THEN { Untouched(NoRow, <<>>, <<>>) }
       ELSE UNION {
              LET new == Assigned(old, data, JobJsToSql)
                  refused == Untouched(StoreFault("constraint violated"), <<>>, <<>>)
                  applied == Outcome(companies, (jobs \ {old}) \cup {new}, nextId,
                                     Return(JobRecord(new)), <<>>, <<>>)
              IN IF \/ new.id = Null
                    \/ \E j \in jobs \ {old} : j.id = new.id
                    \/ /\ new.companyHandle # Null
                       /\ ~\E c \in companies : c.handle = new.companyHandle
                 THEN { refused }
                 ELSE IF new.companyHandle = Null
                 THEN { refused, applied }
                 ELSE { applied } :
              old \in found }

\* Job.update without its check of companyHandle (a fault to be detected)
Job_updateUnguarded(id, data) ==
    LET builder == sqlForPartialUpdate(data, JobJsToSql)
        IdVarIdx == "$" \o ToString(Len(builder.val.values) + 1)
        querySql == "UPDATE jobs SET " \o builder.val.setCols
                    \o " WHERE id = " \o IdVarIdx \o " " \o JobReturning
        update == Statement(querySql,
                            [i \in 1..Len(builder.val.values) |-> Param(builder.val.values[i])]
                            \o <<Param(id)>>)
    IN IF Get(data, "id") # Undefined
       THEN { Untouched(Throw("BadRequestError", "You cannot change the ID of a job."),
                        <<>>, <<>>) }
       ELSE IF builder.err # "none"
       THEN { Untouched(builder, <<"sqlForPartialUpdate">>, <<>>) }
       ELSE { [o EXCEPT !.built = <<"sqlForPartialUpdate">>,
                        !.sent = <<update>>,
                        !.result = IF o.result.err = "no row"
                                   THEN Throw("NotFoundError",
                                              "No job with ID: " \o ToStr(id))
                                   ELSE o.result] :
              o \in JobUpdateAnswers(id, data) }

Job_update(id, data) ==
    LET builder == sqlForPartialUpdate(data, JobJsToSql)
        IdVarIdx == "$" \o ToString(Len(builder.val.values) + 1)
        querySql == "UPDATE jobs SET " \o builder.val.setCols
                    \o " WHERE id = " \o IdVarIdx \o " " \o JobReturning
        update == Statement(querySql,
                            [i \in 1..Len(builder.val.values) |-> Param(builder.val.values[i])]
                            \o <<Param(id)>>)
    IN IF Get(data, "id") # Undefined
       THEN { Untouched(Throw("BadRequestError", "You cannot change the ID of a job."),
                        <<>>, <<>>) }
       ELSE IF Get(data, "companyHandle") # Undefined
       THEN { Untouched(Throw("BadRequestError", "You cannot change the company of a job."),
                        <<>>, <<>>) }
       ELSE IF builder.err # "none"
       THEN { Untouched(builder, <<"sqlForPartialUpdate">>, <<>>) }
       ELSE { [o EXCEPT !.built = <<"sqlForPartialUpdate">>,
                        !.sent = <<update>>,
                        !.result = IF o.result.err = "no row"
                                   THEN Throw("NotFoundError",
                                              "No job with ID: " \o ToStr(id))
                                   ELSE o.result] :
              o \in JobUpdateAnswers(id, data) }

---------------------------------------------------------------------------
(* The builders as pure functions: the initial states are the calls, one   *)
(* per builder and input, and each action runs the builder on its input.   *)

UpdateKeys == {"firstName", "lastName", "email", "numEmployees"}
UpdateValues == [k \in UpdateKeys |-> {Str("Aliya"), Num(32), Null}]

\* the translation maps of the callers and of the tests
TranslationMaps ==
    { <<>>,
      <<Entry("numEmployees", Str("num_employees")), Entry("logoUrl", Str("logo_url"))>>,
      <<Entry("companyHandle", Str("company_handle"))>>,
      <<Entry("firstName", Str("first_name")), Entry("lastName", Str("last_name")),
        Entry("isAdmin", Str("is_admin"))>>,
      <<Entry("email", Str("e_mail")), Entry("numEmployees", Str("num_employees"))>> }

CompanyAllowed == {"nameLike", "minEmployees", "maxEmployees"}
JobAllowed == {"title", "minSalary", "hasEquity"}

CompanyFilterKeys == CompanyAllowed \cup {"invalidSearchParam", "title"}
CompanyFilterValues ==
    [k \in CompanyFilterKeys |->
        CASE k = "nameLike" -> {Str("net"), Str(""), Num(5)}
          [] k \in {"minEmployees", "maxEmployees"} ->
                {Num(0), Num(5), Num(500), Str("5"), Str("many")}
          [] k = "invalidSearchParam" -> {Str("badData"), Num(5)}
          [] OTHER -> {Str("dev")}]

JobFilterKeys == JobAllowed \cup {"invalidSearchParam", "nameLike"}
JobFilterValues ==
    [k \in JobFilterKeys |->
        CASE k = "title" -> {Str("dev"), Str("true")}
          [] k = "minSalary" -> {Num(50000), Str("50000"), Num(0)}
          [] k = "hasEquity" ->
                {Str("true"), Str("false"), Bool(TRUE), Bool(FALSE), Null, Num(1)}
          [] k = "invalidSearchParam" -> {Str("badData"), Str("true")}
          [] OTHER -> {Str("net")}]

BuilderCall(op, data, jsToSql) == [jsToSql |-> jsToSql, op |-> op, data |-> data]

BuilderCalls ==
    { BuilderCall("sqlForPartialUpdate", d, t) :
        d \in Objects(UpdateKeys, UpdateValues, MaxKeys), t \in TranslationMaps }
    \cup
    { BuilderCall(op, d, <<>>) :
        op \in {"sqlForFilterSearchCompanies", "_sqlForFilterSearchCompanies"},
        d \in Objects(CompanyFilterKeys, CompanyFilterValues, MaxKeys) }
    \cup
    { BuilderCall("_sqlForFilterSearchJobs", d, <<>>) :
        d \in Objects(JobFilterKeys, JobFilterValues, MaxKeys) }

BuilderInit ==
    /\ companies = {}
    /\ jobs = {}
    /\ nextId = 1
    /\ call \in BuilderCalls
    /\ result = Pending
    /\ built = <<>>
    /\ sent = <<>>

RunPartialUpdate ==
    /\ call.op = "sqlForPartialUpdate"
    /\ result = Pending
    /\ result' = sqlForPartialUpdate(call.data, call.jsToSql)
    /\ UNCHANGED <<companies, jobs, nextId, call, built, sent>>

RunFilterSearchCompanies ==
    /\ call.op = "sqlForFilterSearchCompanies"
    /\ result = Pending
    /\ result' = sqlForFilterSearchCompanies(call.data)
    /\ UNCHANGED <<companies, jobs, nextId, call, built, sent>>

RunCompanyFilterSearch ==
    /\ call.op = "_sqlForFilterSearchCompanies"
    /\ result = Pending
    /\ result' = _sqlForFilterSearchCompanies(call.data)
    /\ UNCHANGED <<companies, jobs, nextId, call, built, sent>>

RunJobFilterSearch ==
    /\ call.op = "_sqlForFilterSearchJobs"
    /\ result = Pending
    /\ result' = _sqlForFilterSearchJobs(call.data)
    /\ UNCHANGED <<companies, jobs, nextId, call, built, sent>>

BuilderNext ==
    \/ RunPartialUpdate
    \/ RunFilterSearchCompanies
    \/ RunCompanyFilterSearch
    \/ RunJobFilterSearch

BuilderSpec == BuilderInit /\ [][BuilderNext]_vars

---------------------------------------------------------------------------
(* The repositories called one call after another, each call run to its    *)
(* end before the next starts, from the empty store.                        *)

NewCompany(handle, name, numEmployees) ==
    <<Entry("handle", Str(handle)), Entry("name", Str(name)),
      Entry("description", Str("Desc")), Entry("numEmployees", numEmployees),
      Entry("logoUrl", Null)>>

NewJob(title, salary, equity, companyHandle) ==
    <<Entry("title", Str(title)), Entry("salary", salary),
      Entry("equity", equity), Entry("companyHandle", Str(companyHandle))>>

Handles == {"c1", "c2"}

NewCompanies ==
    { NewCompany("c1", n, e) : n \in {"Net", "Bay"}, e \in {Null, Num(5)} }
    \cup { NewCompany("c2", n, e) : n \in {"Anet"}, e \in {Num(0), Num(500)} }

NewJobs ==
    { NewJob(t, p[1], p[2], h) :
        t \in {"dev", "ops"}, h \in Handles,
        p \in {<<Num(50000), Num(1)>>, <<Null, Num(0)>>} }

\* the filter payloads the sequential callers send
SomeCompanyFilters ==
    { <<>>,
      <<Entry("nameLike", Str("net"))>>,
      <<Entry("minEmployees", Num(5)), Entry("maxEmployees", Num(500))>>,
      <<Entry("minEmployees", Num(500)), Entry("maxEmployees", Num(5))>>,
      <<Entry("title", Str("dev"))>> }

SomeJobFilters ==
    { <<>>,
      <<Entry("title", Str("dev")), Entry("hasEquity", Str("true"))>>,
      <<Entry("hasEquity", Str("false")), Entry("minSalary", Num(50000))>>,
      <<Entry("nameLike", Str("net"))>> }

NoCall == BuilderCall("none", <<>>, <<>>)

Init ==
    /\ companies = {}
    /\ jobs = {}
    /\ nextId = 1
    /\ call = NoCall
    /\ result = Pending
    /\ built = <<>>
    /\ sent = <<>>

\* the call op(data) ran to its end with outcome out
Completes(op, data, out) ==
    /\ call' = BuilderCall(op, data, <<>>)
    /\ companies' = out.companies
    /\ jobs' = out.jobs
    /\ nextId' = out.nextId
    /\ result' = out.result
    /\ built' = out.built
    /\ sent' = out.sent

CompanyCreate ==
    \E data \in NewCompanies : \E out \in Company_create(data) :
        Completes("Company.create", data, out)

CompanyRemove ==
    \E handle \in Handles : \E out \in Company_remove(Str(handle)) :
        Completes("Company.remove", Str(handle), out)

CompanyFilter ==
    \E searchParams \in SomeCompanyFilters : \E out \in Company_filter(searchParams) :
        Completes("Company.filter", searchParams, out)

JobCreate ==
    \E data \in NewJobs : \E out \in Job_create(data) :
        /\ out.nextId <= MaxJobId + 1
        /\ Completes("Job.create", data, out)

JobRemove ==
    \E id \in 1..MaxJobId : \E out \in Job_remove(Num(id)) :
        Completes("Job.remove", Num(id), out)

JobFilter ==
    \E searchParams \in SomeJobFilters : \E out \in Job_filter(searchParams) :
        Completes("Job.filter", searchParams, out)

\* what the caller holds of the call before: the record a create returned
Created ==
    IF call.op \in {"Company.create", "Job.create"} /\ result.err = "none"
    THEN [val |-> result.val, op |-> call.op]
    ELSE [val |-> <<>>, op |-> "none"]

\* a get by the identity id, from a caller that holds created
GetCall(op, id, created) ==
    [jsToSql |-> <<>>, op |-> op, data |-> id, created |-> created]

CompanyGet ==
    \E handle \in Handles : \E out \in Company_get(Str(handle)) :
        /\ call' = GetCall("Company.get", Str(handle), Created)
        /\ result' = out.result
        /\ built' = out.built
        /\ sent' = out.sent
        /\ UNCHANGED <<companies, jobs, nextId>>

JobGet ==
    \E id \in 1..MaxJobId : \E out \in Job_get(Num(id)) :
        /\ call' = GetCall("Job.get", Num(id), Created)
        /\ result' = out.result
        /\ built' = out.built
        /\ sent' = out.sent
        /\ UNCHANGED <<companies, jobs, nextId>>

Next ==
    \/ CompanyCreate
    \/ CompanyRemove
    \/ CompanyFilter
    \/ JobCreate
    \/ JobRemove
    \/ JobFilter
    \/ CompanyGet
    \/ JobGet

Spec == Init /\ [][Next]_vars

---------------------------------------------------------------------------
(* One filter call against a store: the initial states are the stores the  *)
(* creates can have left, each with one filter call to run.                 *)

\* the row Company.create inserts for data
CompanyRowOf(data) ==
    [name |-> Get(data, "name"), numEmployees |-> Get(data, "numEmployees"),
     handle |-> Get(data, "handle"),
     logoUrl |-> Get(data, "logoUrl"), description |-> Get(data, "description")]

\* the row Job.create inserts for data when the serial stands at id
JobRowOf(data, id) ==
    [id |-> Num(id), title |-> Get(data, "title"), salary |-> Get(data, "salary"),
     equity |-> Get(data, "equity"), companyHandle |-> Get(data, "companyHandle")]

\* the companies tables creates can leave: at most one row for a handle
CompanyTables ==
    { t \in SUBSET { CompanyRowOf(d) : d \in NewCompanies } :
        \A a, b \in t : a.handle = b.handle => a = b }

BothCompanies ==
    { CompanyRowOf(NewCompany("c1", "Net", Num(5))),
      CompanyRowOf(NewCompany("c2", "Anet", Num(500))) }

SeedJobs ==
    NewJobs \cup { NewJob(t, Num(10), Null, h) : t \in {"dev", "ops"}, h \in Handles }

\* the jobs tables creates can leave: at most two rows, numbered from 1,
\* no two for one company and title
JobTables ==
    {{}} \cup { {JobRowOf(d, 1)} : d \in SeedJobs }
    \cup { {JobRowOf(d, 1), JobRowOf(e, 2)} :
            <<d, e>> \in { p \in SeedJobs \X SeedJobs :
                \/ Get(p[1], "title") # Get(p[2], "title")
                \/ Get(p[1], "companyHandle") # Get(p[2], "companyHandle") } }

CompanyFilterPayloads ==
    Objects(CompanyAllowed,
            [k \in CompanyAllowed |->
                IF k = "nameLike" THEN {Str("net")}
                ELSE {Num(0), Num(5), Num(500)}],
            Cardinality(CompanyAllowed))

JobFilterPayloads ==
    Objects(JobAllowed,
            [k \in JobAllowed |->
                CASE k = "title" -> {Str("dev")}
                  [] k = "minSalary" -> {Num(0), Num(50000)}
                  [] OTHER -> {Str("true"), Str("false"), Bool(TRUE)}],
            Cardinality(JobAllowed))

FilterInit ==
    /\ \/ /\ companies \in CompanyTables
          /\ jobs = {}
          /\ call \in { BuilderCall("Company.filter", d, <<>>) : d \in CompanyFilterPayloads }
       \/ /\ companies = BothCompanies
          /\ jobs \in JobTables
          /\ call \in { BuilderCall("Job.filter", d, <<>>) : d \in JobFilterPayloads }
    /\ nextId = Cardinality(jobs) + 1
    /\ result = Pending
    /\ built = <<>>
    /\ sent = <<>>

RunCompanyFilter ==
    /\ call.op = "Company.filter"
    /\ result = Pending
    /\ \E out \in Company_filter(call.data) : Completes(call.op, call.data, out)

RunJobFilter ==
    /\ call.op = "Job.filter"
    /\ result = Pending
    /\ \E out \in Job_filter(call.data) : Completes(call.op, call.data, out)

FilterNext ==
    \/ RunCompanyFilter
    \/ RunJobFilter

FilterSpec == FilterInit /\ [][FilterNext]_vars

---------------------------------------------------------------------------
(* One repository call against a store: the initial states are stores the  *)
(* creates can have left, each with one call to run.                        *)

\* a call of a repository operation on the identity id with the payload data
RepoCall(op, id, data) == [jsToSql |-> <<>>, op |-> op, id |-> id, data |-> data]

SeedJob(id, title, companyHandle) ==
    JobRowOf(NewJob(title, Num(50000), Num(1), companyHandle), id)

\* the stores the calls run against: the jobs of a store refer to its companies
CallStores ==
    { [companies |-> {}, jobs |-> {}],
      [companies |-> { CompanyRowOf(NewCompany("c1", "Net", Num(5))) }, jobs |-> {}],
      [companies |-> { CompanyRowOf(NewCompany("c1", "Net", Num(5))) },
       jobs |-> { SeedJob(1, "dev", "c1") }],
      [companies |-> BothCompanies, jobs |-> {}],
      [companies |-> BothCompanies,
       jobs |-> { SeedJob(1, "ops", "c1"), SeedJob(2, "dev", "c1") }],
      [companies |-> BothCompanies,
       jobs |-> { SeedJob(1, "ops", "c1"), SeedJob(2, "dev", "c2") }] }

\* the calls drawn: updates with payloads of at most MaxKeys entries, JSON
\* values, the identity fields among the keys; the other operations on the
\* handles and ids of stored and of missing rows
RepoCalls ==
    LET companyUpdateKeys == {"name", "numEmployees", "logoUrl", "handle"}
        companyUpdateValues ==
            [k \in companyUpdateKeys |->
                CASE k = "name" -> {Str("Cove"), Str("Net")}
                  [] k = "numEmployees" -> {Num(500), Null}
                  [] k = "logoUrl" -> {Str("http://c.img"), Null}
                  [] OTHER -> {Str("c2"), Str("c3")}]
        jobUpdateKeys == {"title", "salary", "equity", "id", "companyHandle"}
        jobUpdateValues ==
            [k \in jobUpdateKeys |->
                CASE k = "title" -> {Str("qa"), Str("dev")}
                  [] k = "salary" -> {Num(10), Null}
                  [] k = "equity" -> {Num(0), Null}
                  [] k = "id" -> {Num(2), Null}
                  [] OTHER -> {Str("c2"), Null}]
        handles == { Str(h) : h \in {"c1", "c2", "c3"} }
        ids == { Num(n) : n \in 1..(MaxJobId + 1) }
    IN { RepoCall("Company.update", h, d) :
            h \in handles, d \in Objects(companyUpdateKeys, companyUpdateValues, MaxKeys) }
       \cup { RepoCall("Job.update", n, d) :
            n \in ids, d \in Objects(jobUpdateKeys, jobUpdateValues, MaxKeys) }
       \cup { RepoCall(op, h, <<>>) :
            op \in {"Company.remove", "Company.get", "Job.getJobsOfCompany"},
            h \in handles }
       \cup { RepoCall(op, n, <<>>) : op \in {"Job.remove", "Job.get"}, n \in ids }
       \cup { RepoCall("Company.create", Undefined, d) : d \in NewCompanies }
       \cup { RepoCall("Job.create", Undefined, d) : d \in NewJobs }
       \cup { RepoCall("Company.filter", Undefined, d) : d \in SomeCompanyFilters }
       \cup { RepoCall("Job.filter", Undefined, d) : d \in SomeJobFilters }

CallInit ==
    /\ \E store \in CallStores : companies = store.companies /\ jobs = store.jobs
    /\ nextId = Cardinality(jobs) + 1
    /\ call \in RepoCalls
    /\ result = Pending
    /\ built = <<>>
    /\ sent = <<>>

\* the pending call ran to its end with outcome out
Answered(out) ==
    /\ result = Pending
    /\ companies' = out.companies
    /\ jobs' = out.jobs
    /\ nextId' = out.nextId
    /\ result' = out.result
    /\ built' = out.built
    /\ sent' = out.sent
    /\ UNCHANGED call

RunCompanyCreate ==
    /\ call.op = "Company.create"
    /\ \E out \in Company_create(call.data) : Answered(out)

RunJobCreate ==
    /\ call.op = "Job.create"
    /\ \E out \in Job_create(call.data) : Answered(out)

RunCompanyUpdate ==
    /\ call.op = "Company.update"
    /\ \E out \in Company_update(call.id, call.data) : Answered(out)

RunCompanyRemove ==
    /\ call.op = "Company.remove"
    /\ \E out \in Company_remove(call.id) : Answered(out)

RunCompanyGet ==
    /\ call.op = "Company.get"
    /\ \E out \in Company_get(call.id) : Answered(out)

RunJobUpdate ==
    /\ call.op = "Job.update"
    /\ \E out \in Job_update(call.id, call.data) : Answered(out)

RunJobRemove ==
    /\ call.op = "Job.remove"
    /\ \E out \in Job_remove(call.id) : Answered(out)

RunJobGet ==
    /\ call.op = "Job.get"
    /\ \E out \in Job_get(call.id) : Answered(out)

RunJobsOfCompany ==
    /\ call.op = "Job.getJobsOfCompany"
    /\ \E out \in Job_getJobsOfCompany(call.id) : Answered(out)

RunCompanyFilterCall ==
    /\ call.op = "Company.filter"
    /\ \E out \in Company_filter(call.data) : Answered(out)

RunJobFilterCall ==
    /\ call.op = "Job.filter"
    /\ \E out \in Job_filter(call.data) : Answered(out)

CallNext ==
    \/ RunCompanyCreate
    \/ RunJobCreate
    \/ RunCompanyUpdate
    \/ RunCompanyRemove
    \/ RunCompanyGet
    \/ RunJobUpdate
    \/ RunJobRemove
    \/ RunJobGet
    \/ RunJobsOfCompany
    \/ RunCompanyFilterCall
    \/ RunJobFilterCall

CallSpec == CallInit /\ [][CallNext]_vars

---------------------------------------------------------------------------
(* middleware/auth.js and the routers of companies and jobs: requests      *)
(* served one after another from the empty store.  res.locals is an object *)
(* that holds the entry user when a token was verified; built lists what   *)
(* the handler invoked after its middleware.                                *)

\* ensureUserIsAdmin with isAdmin tested for truth instead of compared with
\* true (a fault to be detected)
ensureUserIsAdminTruthy(locals) ==
    IF ~HasKey(locals, "user") \/ ~Truthy(Get(Get(locals, "user"), "isAdmin"))
    THEN Throw("UnauthorizedError", "Unauthorized")
    ELSE Return(Undefined)

\* ensureUserIsAdmin with the check of ensureLoggedIn: any user passes (a
\* fault to be detected)
ensureUserIsAdminAnyUser(locals) ==
    IF ~HasKey(locals, "user")
    THEN Throw("UnauthorizedError", "Unauthorized")
    ELSE Return(Undefined)

ensureUserIsAdmin(locals) ==
    IF ~HasKey(locals, "user") \/ Get(Get(locals, "user"), "isAdmin") # Bool(TRUE)
    THEN Throw("UnauthorizedError", "Unauthorized")
    ELSE Return(Undefined)

\* jsonschema.validate(body, schema).valid: every key of the body is one the
\* schema names, and the keys the schema requires are there
SchemaAccepts(schema, body) ==
    LET named == CASE schema = "companyNew" ->
                        {"handle", "name", "description", "numEmployees", "logoUrl"}
                   [] schema = "companyUpdate" ->
                        {"name", "description", "numEmployees", "logoUrl"}
                   [] schema = "jobNew" -> {"title", "salary", "equity", "companyHandle"}
                   [] schema = "jobUpdate" -> {"title", "salary", "equity"}
                   [] schema = "companyFilterSearch" -> CompanyAllowed
                   [] schema = "jobFilterSearch" -> JobAllowed
        required == CASE schema = "companyNew" -> {"handle", "name", "description"}
                      [] schema = "jobNew" -> {"title", "companyHandle"}
                      [] OTHER -> {}
    IN /\ \A i \in 1..Len(body) : body[i].k \in named
       /\ \A k \in required : HasKey(body, k)

\* the res.locals the requests come with: no user, a user, a user whose
\* token says nothing of isAdmin, an admin
Locals ==
    { <<>>,
      <<Entry("user", <<Entry("username", Str("u1")), Entry("isAdmin", Bool(FALSE))>>)>>,
      <<Entry("user", <<Entry("username", Str("u2"))>>)>>,
      <<Entry("user", <<Entry("username", Str("admin")), Entry("isAdmin", Bool(TRUE))>>)>> }

Request(op, locals, id, data) ==
    [jsToSql |-> <<>>, op |-> op, id |-> id, data |-> data, locals |-> locals]

\* the request req was answered: out is what the repository left, invoked
\* what the handler called before the builders of the repository
Serves(req, invoked, out) ==
    /\ call' = req
    /\ companies' = out.companies
    /\ jobs' = out.jobs
    /\ nextId' = out.nextId
    /\ result' = out.result
    /\ built' = invoked \o out.built
    /\ sent' = out.sent

\* the outcome out with the value returned sent as res.json({ key: value })
Json(key, out) ==
    IF out.result.err # "none" THEN out
    ELSE [out EXCEPT !.result = Return(<<Entry(key, out.result.val)>>)]

Invalid(errs) == Untouched(Throw("BadRequestError", errs), <<>>, <<>>)

PostCompany ==
    \E locals \in Locals :
    \E body \in { NewCompany("c1", "Net", Num(5)), NewCompany("c2", "Anet", Null),
                  <<Entry("handle", Str("c1"))>> } :
        LET req == Request("POST /companies", locals, Undefined, body)
            auth == ensureUserIsAdmin(locals)
        IN IF auth.err # "none"
           THEN Serves(req, <<>>, Untouched(auth, <<>>, <<>>))
           ELSE IF ~SchemaAccepts("companyNew", body)
           THEN Serves(req, <<"jsonschema.validate">>, Invalid("companyNew"))
           ELSE \E out \in Company_create(body) :
                    Serves(req, <<"jsonschema.validate", "Company.create">>,
                           Json("company", out))

\* req.query with minEmployees and maxEmployees converted by the unary plus
CompanySearchData(query) ==
    [i \in 1..Len(query) |->
        IF query[i].k \in {"minEmployees", "maxEmployees"}
        THEN Entry(query[i].k, UnaryPlus(query[i].v))
        ELSE query[i]]

GetCompanies ==
    \E locals \in Locals :
    \E query \in { <<>>, <<Entry("nameLike", Str("net"))>>,
                   <<Entry("minEmployees", Str("5"))>>, <<Entry("title", Str("dev"))>> } :
        LET req == Request("GET /companies", locals, Undefined, query)
            searchData == CompanySearchData(query)
        IN IF Len(Keys(query)) = 0
           THEN \E out \in Company_findAll :
                    Serves(req, <<"Company.findAll">>, Json("companies", out))
           ELSE IF ~SchemaAccepts("companyFilterSearch", searchData)
           THEN Serves(req, <<"jsonschema.validate">>, Invalid("companyFilterSearch"))
           ELSE \E out \in Company_filter(searchData) :
                    Serves(req, <<"jsonschema.validate", "Company.filter">>,
                           Json("companies", out))

\* GET /companies/:handle without the catch around Job.getJobsOfCompany (a
\* fault to be detected)
GetCompanyUncaught ==
    \E locals \in Locals : \E handle \in Handles :
    \E got \in Company_get(Str(handle)) : \E jobsRes \in Job_getJobsOfCompany(Str(handle)) :
        LET req == Request("GET /companies/:handle", locals, Str(handle), <<>>)
            company == [f \in DOMAIN got.result.val \cup {"jobs"} |->
                            IF f # "jobs" THEN got.result.val[f]
                            ELSE jobsRes.result.val]
        IN IF got.result.err # "none"
           THEN Serves(req, <<"Company.get">>, got)
           ELSE IF jobsRes.result.err # "none"
           THEN Serves(req, <<"Company.get", "Job.getJobsOfCompany">>,
                       [jobsRes EXCEPT !.sent = got.sent \o jobsRes.sent])
           ELSE Serves(req, <<"Company.get", "Job.getJobsOfCompany">>,
                       [got EXCEPT !.result = Return(<<Entry("company", company)>>),
                                   !.sent = got.sent \o jobsRes.sent])

GetCompany ==
    \E locals \in Locals : \E handle \in Handles :
    \E got \in Company_get(Str(handle)) : \E jobsRes \in Job_getJobsOfCompany(Str(handle)) :
        LET req == Request("GET /companies/:handle", locals, Str(handle), <<>>)
            company == [f \in DOMAIN got.result.val \cup {"jobs"} |->
                            IF f # "jobs" THEN got.result.val[f]
                            ELSE IF jobsRes.result.err = "none"
                                 THEN jobsRes.result.val ELSE <<>>]
        IN IF got.result.err # "none"
           THEN Serves(req, <<"Company.get">>, got)
           ELSE Serves(req, <<"Company.get", "Job.getJobsOfCompany">>,
                       [got EXCEPT !.result = Return(<<Entry("company", company)>>),
                                   !.sent = got.sent \o jobsRes.sent])

PatchCompany ==
    \E locals \in Locals : \E handle \in Handles :
    \E body \in { <<Entry("numEmployees", Null)>>, <<Entry("handle", Str("c2"))>>,
                  <<Entry("title", Str("dev"))>> } :
        LET req == Request("PATCH /companies/:handle", locals, Str(handle), body)
            auth == ensureUserIsAdmin(locals)
        IN IF auth.err # "none"
           THEN Serves(req, <<>>, Untouched(auth, <<>>, <<>>))
           ELSE IF ~SchemaAccepts("companyUpdate", body)
           THEN Serves(req, <<"jsonschema.validate">>,
                       IF Truthy(Get(body, "handle"))
                       THEN Untouched(Throw("ForbiddenError", "companyUpdate"), <<>>, <<>>)
                       ELSE Invalid("companyUpdate"))
           ELSE \E out \in Company_update(Str(handle), body) :
                    Serves(req, <<"jsonschema.validate", "Company.update">>,
                           Json("company", out))

DeleteCompany ==
    \E locals \in Locals : \E handle \in Handles :
        LET req == Request("DELETE /companies/:handle", locals, Str(handle), <<>>)
            auth == ensureUserIsAdmin(locals)
        IN IF auth.err # "none"
           THEN Serves(req, <<>>, Untouched(auth, <<>>, <<>>))
           ELSE \E out \in Company_remove(Str(handle)) :
                    Serves(req, <<"Company.remove">>,
                           Json("deleted",
                                IF out.result.err # "none" THEN out
                                ELSE [out EXCEPT !.result = Return(Str(handle))]))

PostJob ==
    \E locals \in Locals :
    \E body \in { NewJob("dev", Num(50000), Num(1), "c1"), NewJob("ops", Null, Num(0), "c1"),
                  <<Entry("title", Str("dev"))>> } :
        LET req == Request("POST /jobs", locals, Undefined, body)
            auth == ensureUserIsAdmin(locals)
        IN IF auth.err # "none"
           THEN Serves(req, <<>>, Untouched(auth, <<>>, <<>>))
           ELSE IF ~SchemaAccepts("jobNew", body)
           THEN Serves(req, <<"jsonschema.validate">>, Invalid("jobNew"))
           ELSE \E out \in Job_create(body) :
                    /\ out.nextId <= MaxJobId + 1
                    /\ Serves(req, <<"jsonschema.validate", "Job.create">>,
                              Json("job", out))

\* req.query with hasEquity "true" and "false" made booleans and minSalary
\* converted by the unary plus
JobSearchData(query) ==
    [i \in 1..Len(query) |->
        IF query[i].k = "hasEquity" /\ query[i].v \in {Str("true"), Str("false")}
        THEN Entry("hasEquity", Bool(query[i].v = Str("true")))
        ELSE IF query[i].k = "minSalary"
        THEN Entry("minSalary", UnaryPlus(query[i].v))
        ELSE query[i]]

GetJobs ==
    \E locals \in Locals :
    \E query \in { <<>>, <<Entry("hasEquity", Str("true"))>>,
                   <<Entry("title", Str("ops")), Entry("hasEquity", Str("true"))>>,
                   <<Entry("minSalary", Str("50000"))>>, <<Entry("nameLike", Str("net"))>> } :
        LET req == Request("GET /jobs", locals, Undefined, query)
            searchData == JobSearchData(query)
        IN IF Len(Keys(query)) = 0
           THEN \E out \in Job_findAll :
                    Serves(req, <<"Job.findAll">>, Json("jobs", out))
           ELSE IF ~SchemaAccepts("jobFilterSearch", searchData)
           THEN Serves(req, <<"jsonschema.validate">>, Invalid("jobFilterSearch"))
           ELSE \E out \in Job_filter(searchData) :
                    Serves(req, <<"jsonschema.validate", "Job.filter">>,
                           Json("jobs", out))

\* the :id path parameters the requests come with
IdParams == { Str(ToString(n)) : n \in 1..MaxJobId } \cup { Str("many"), Str(Fraction.s) }

NotAnId(id) ==
    Untouched(Throw("BadRequestError",
                    "Job ID must be an integer: " \o id.s \o " invalid"), <<>>, <<>>)

GetJob ==
    \E locals \in Locals : \E id \in IdParams :
        LET req == Request("GET /jobs/:id", locals, id, <<>>)
        IN IF UnaryPlus(id) = NaN
           THEN Serves(req, <<>>, NotAnId(id))
           ELSE \E out \in Job_get(UnaryPlus(id)) :
                    Serves(req, <<"Job.get">>, Json("job", out))

PatchJob ==
    \E locals \in Locals : \E id \in IdParams :
    \E body \in { <<Entry("salary", Null)>>, <<Entry("id", Num(2))>> } :
        LET req == Request("PATCH /jobs/:id", locals, id, body)
            auth == ensureUserIsAdmin(locals)
        IN IF auth.err # "none"
           THEN Serves(req, <<>>, Untouched(auth, <<>>, <<>>))
           ELSE IF UnaryPlus(id) = NaN
           THEN Serves(req, <<>>, NotAnId(id))
           ELSE IF ~SchemaAccepts("jobUpdate", body)
           THEN Serves(req, <<"jsonschema.validate">>, Invalid("jobUpdate"))
           ELSE \E out \in Job_update(UnaryPlus(id), body) :
                    Serves(req, <<"jsonschema.validate", "Job.update">>,
                           Json("job", out))

DeleteJob ==
    \E locals \in Locals : \E id \in IdParams :
        LET req == Request("DELETE /jobs/:id", locals, id, <<>>)
            auth == ensureUserIsAdmin(locals)
        IN IF auth.err # "none"
           THEN Serves(req, <<>>, Untouched(auth, <<>>, <<>>))
           ELSE IF UnaryPlus(id) = NaN
           THEN Serves(req, <<>>, NotAnId(id))
           ELSE \E out \in Job_remove(UnaryPlus(id)) :
                    Serves(req, <<"Job.remove">>,
                           Json("deleted",
                                IF out.result.err # "none" THEN out
                                ELSE [out EXCEPT !.result = Return(out.result.val.id)]))

RouteNext ==
    \/ PostCompany
    \/ GetCompanies
    \/ GetCompany
    \/ PatchCompany
    \/ DeleteCompany
    \/ PostJob
    \/ GetJobs
    \/ GetJob
    \/ PatchJob
    \/ DeleteJob

RouteSpec == Init /\ [][RouteNext]_vars

---------------------------------------------------------------------------
(* Two create calls in flight at once.  Each await of db.query is a step   *)
(* of its caller: the duplicate check, then the INSERT.  call, result and  *)
(* sent hold one entry for each caller; call[p].pc is what caller p does   *)
(* next.                                                                    *)

Procs == {1, 2}

RaceInit ==
    /\ companies = { CompanyRowOf(NewCompany("c2", "Anet", Num(500))) }
    /\ jobs = {}
    /\ nextId = 1
    /\ call \in [Procs ->
            { [op |-> "Company.create", data |-> d, pc |-> "check"] :
                d \in { NewCompany("c1", "Net", Num(5)), NewCompany("c1", "Bay", Null),
                        NewCompany("c2", "Anet", Num(500)) } }
            \cup
            { [op |-> "Job.create", data |-> d, pc |-> "check"] :
                d \in { NewJob("dev", Num(50000), Num(1), "c2"),
                        NewJob("dev", Null, Num(0), "c2"),
                        NewJob("ops", Null, Num(0), "c1") } }]
    /\ result = [p \in Procs |-> Pending]
    /\ built = <<>>
    /\ sent = [p \in Procs |-> <<>>]

\* caller p sent the statement stmt and goes on at pc with the result res
Awaited(p, stmt, pc, res) ==
    /\ call' = [call EXCEPT ![p].pc = pc]
    /\ result' = [result EXCEPT ![p] = res]
    /\ sent' = [sent EXCEPT ![p] = Append(@, stmt)]
    /\ UNCHANGED built

CompanyCheck(p) ==
    LET handle == Get(call[p].data, "handle")
        check == Statement("SELECT handle FROM companies WHERE handle = $1",
                           <<Param(handle)>>)
    IN /\ call[p].op = "Company.create" /\ call[p].pc = "check"
       /\ IF \E c \in companies : c.handle = Param(handle)
          THEN Awaited(p, check, "done",
                       Throw("BadRequestError", "Duplicate company: " \o ToStr(handle)))
          ELSE Awaited(p, check, "insert", Pending)
       /\ UNCHANGED <<companies, jobs, nextId>>

CompanyInsert(p) ==
    LET data == call[p].data
        row == [name |-> Param(Get(data, "name")),
                numEmployees |-> Param(Get(data, "numEmployees")),
                handle |-> Param(Get(data, "handle")),
                logoUrl |-> Param(Get(data, "logoUrl")),
                description |-> Param(Get(data, "description"))]
        insert == Statement(
            "INSERT INTO companies(handle, name, description, num_employees, "
            \o "logo_url) VALUES ($1, $2, $3, $4, $5) " \o CompanyReturning,
            <<row.handle, row.name, row.description, row.numEmployees, row.logoUrl>>)
    IN /\ call[p].op = "Company.create" /\ call[p].pc = "insert"
       /\ IF \E c \in companies : c.handle = row.handle
          THEN /\ Awaited(p, insert, "done", StoreFault("companies.handle is taken"))
               /\ UNCHANGED companies
          ELSE /\ Awaited(p, insert, "done", Return(row))
               /\ companies' = companies \cup {row}
       /\ UNCHANGED <<jobs, nextId>>

JobCheck(p) ==
    LET title == Get(call[p].data, "title")
        companyHandle == Get(call[p].data, "companyHandle")
        check == Statement("SELECT title FROM jobs WHERE company_handle=$1 AND title=$2",
                           <<Param(companyHandle), Param(title)>>)
    IN /\ call[p].op = "Job.create" /\ call[p].pc = "check"
       /\ IF \E j \in jobs : /\ j.companyHandle = Param(companyHandle)
                             /\ j.title = Param(title)
          THEN Awaited(p, check, "done",
                       Throw("BadRequestError", "Duplicate job: " \o ToStr(title)
                                                \o " at " \o ToStr(companyHandle)))
          ELSE Awaited(p, check, "insert", Pending)
       /\ UNCHANGED <<companies, jobs, nextId>>

\* JobInsert guarded by a new look for a duplicate (a fault to be detected)
JobInsertRechecked(p) ==
    LET data == call[p].data
        row == [id |-> Num(nextId),
                title |-> Param(Get(data, "title")),
                salary |-> Param(Get(data, "salary")),
                equity |-> Param(Get(data, "equity")),
                companyHandle |-> Param(Get(data, "companyHandle"))]
        insert == Statement(
            "INSERT INTO jobs(title, salary, equity, company_handle) "
            \o "VALUES ($1, $2, $3, $4) " \o JobReturning,
            <<row.title, row.salary, row.equity, row.companyHandle>>)
    IN /\ call[p].op = "Job.create" /\ call[p].pc = "insert"
       /\ IF \E j \in jobs : j.companyHandle = row.companyHandle /\ j.title = row.title
          THEN /\ call' = [call EXCEPT ![p].pc = "done"]
               /\ result' = [result EXCEPT ![p] = Throw("BadRequestError", "Duplicate job")]
               /\ UNCHANGED <<companies, jobs, nextId, built, sent>>
          ELSE \E out \in JobInsertAnswers(row) :
                /\ Awaited(p, insert, "done", out.result)
                /\ jobs' = out.jobs
                /\ nextId' = out.nextId
                /\ UNCHANGED companies

JobInsert(p) ==
    LET data == call[p].data
        row == [id |-> Num(nextId),
                title |-> Param(Get(data, "title")),
                salary |-> Param(Get(data, "salary")),
                equity |-> Param(Get(data, "equity")),
                companyHandle |-> Param(Get(data, "companyHandle"))]
        insert == Statement(
            "INSERT INTO jobs(title, salary, equity, company_handle) "
            \o "VALUES ($1, $2, $3, $4) " \o JobReturning,
            <<row.title, row.salary, row.equity, row.companyHandle>>)
    IN /\ call[p].op = "Job.create" /\ call[p].pc = "insert"
       /\ \E out \in JobInsertAnswers(row) :
            /\ Awaited(p, insert, "done", out.result)
            /\ jobs' = out.jobs
            /\ nextId' = out.nextId
       /\ UNCHANGED companies

RaceNext ==
    \/ \E p \in Procs : CompanyCheck(p)
    \/ \E p \in Procs : CompanyInsert(p)
    \/ \E p \in Procs : JobCheck(p)
    \/ \E p \in Procs : JobInsert(p)

RaceSpec == RaceInit /\ [][RaceNext]_vars

---------------------------------------------------------------------------
(* Properties of the builders, checked under BuilderSpec. *)

Ran(op) == call.op = op /\ result # Pending

\* the elements of the list a call returned
Returned == { result.val[i] : i \in 1..Len(result.val) }

AllKeysIn(obj, allowed) == \A i \in 1..Len(obj) : obj[i].k \in allowed

\* obj without its entry for key
Without(obj, key) ==
    LET keep == { i \in 1..Len(obj) : obj[i].k # key }
        nth[j \in 1..Cardinality(keep)] ==
            CHOOSE i \in keep : Cardinality({ h \in keep : h < i }) = j - 1
    IN [j \in 1..Cardinality(keep) |-> obj[nth[j]]]

\* C1: for a non-empty payload P and a translation map T, sqlForPartialUpdate
\* returns len(P) fragments and len(P) values in the key order of P; the i-th
\* fragment assigns $i to T[key_i] when T has an entry for key_i and to key_i
\* otherwise, the i-th value is P[key_i] unchanged, and setCols is the
\* fragments joined by ", ".
C1_PartialUpdateShape ==
    (Ran("sqlForPartialUpdate") /\ Len(call.data) > 0) =>
        /\ result.err = "none"
        /\ Len(result.val.cols) = Len(call.data)
        /\ Len(result.val.values) = Len(call.data)
        /\ \A i \in 1..Len(call.data) :
            LET key == call.data[i].k
                column == IF HasKey(call.jsToSql, key)
                          THEN Get(call.jsToSql, key).s ELSE key
            IN /\ result.val.cols[i] = "\"" \o column \o "\"=$" \o ToString(i)
               /\ result.val.values[i] = call.data[i].v
        /\ result.val.setCols = Join(result.val.cols, ", ")

\* C1 witness: a three-field payload, one field translated and one not,
\* has been built ("first_name"=$1, "last_name"=$2, "email"=$3).
C1_Witness ==
    /\ Ran("sqlForPartialUpdate")
    /\ Keys(call.data) = <<"firstName", "lastName", "email">>
    /\ HasKey(call.jsToSql, "firstName") /\ ~HasKey(call.jsToSql, "email")
    /\ result.err = "none"
    /\ result.val.setCols = "\"first_name\"=$1, \"last_name\"=$2, \"email\"=$3"

\* C2: sqlForPartialUpdate with an empty payload fails with a BadRequestError
\* for every translation map and returns no result.
C2_EmptyUpdateRejected ==
    (Ran("sqlForPartialUpdate") /\ Len(call.data) = 0) =>
        result = Throw("BadRequestError", "No data")

\* C2 witness: the empty payload was given with a non-empty translation map.
C2_Witness ==
    /\ Ran("sqlForPartialUpdate")
    /\ Len(call.data) = 0
    /\ Len(call.jsToSql) = 3
    /\ result.err = "BadRequestError"

\* the fragment text the company builder owes to a key at position i
CompanyFragmentText(key, i) ==
    CASE key = "nameLike" -> "name ILIKE $" \o ToString(i)
      [] key = "minEmployees" -> "num_employees >= $" \o ToString(i)
      [] key = "maxEmployees" -> "num_employees <= $" \o ToString(i)

IsCompanyBuilder(op) ==
    op \in {"sqlForFilterSearchCompanies", "_sqlForFilterSearchCompanies"}

\* the WHERE predicate a company builder returned, as text
CompanyWhereIs(where) ==
    IF call.op = "sqlForFilterSearchCompanies"
    THEN result.val.whereQuery = where /\ Len(result.val.values) = Len(call.data)
    ELSE result.val.querySql = CompanySelect(where)
         /\ Len(result.val.searchValues) = Len(call.data)

CompanyValues == 
    IF call.op = "sqlForFilterSearchCompanies"
    THEN result.val.values ELSE result.val.searchValues

IsFilterBuilder(op) == IsCompanyBuilder(op) \/ op = "_sqlForFilterSearchJobs"

AllowedOf(op) == IF IsCompanyBuilder(op) THEN CompanyAllowed ELSE JobAllowed

\* the first key of obj, in its order, that is not allowed
FirstBadKey(obj, allowed) ==
    obj[CHOOSE i \in 1..Len(obj) :
            /\ obj[i].k \notin allowed
            /\ \A h \in 1..(i - 1) : obj[h].k \in allowed].k

\* C4: a filter payload holding a key outside the entity's allow-list fails
\* with a BadRequestError naming that key (the first such key in payload
\* order), whatever its value and position; no result is returned.
C4_UnknownKeyRejected ==
    (/\ IsFilterBuilder(call.op) /\ result # Pending
     /\ ~AllKeysIn(call.data, AllowedOf(call.op))) =>
        result = Throw("BadRequestError",
                       "Bad Key: " \o FirstBadKey(call.data, AllowedOf(call.op)))

\* C4 witness: the job builder has rejected a payload whose unknown key comes
\* last, after two allowed keys.
C4_Witness ==
    /\ Ran("_sqlForFilterSearchJobs")
    /\ Len(call.data) = 3
    /\ call.data[1].k \in JobAllowed /\ call.data[2].k \in JobAllowed
    /\ call.data[3].k = "invalidSearchParam"
    /\ result.msg = "Bad Key: invalidSearchParam"

\* C5: the company and job filter builders fail with a BadRequestError when
\* the payload is empty.
C5_EmptyFilterRejected ==
    (IsFilterBuilder(call.op) /\ result # Pending /\ Len(call.data) = 0) =>
        result = Throw("BadRequestError", "No data")

\* C5 witness: the job builder has been given the empty payload.
C5_Witness ==
    /\ Ran("_sqlForFilterSearchJobs")
    /\ call.data = <<>>
    /\ result.err = "BadRequestError"

\* the positions of the equity fragments in a builder's result
EquityFragments ==
    { j \in 1..Len(result.val.whereQueries) : result.val.whereQueries[j].col = "equity" }

C7_FalseEquityIsAbsent ==
    (/\ Ran("_sqlForFilterSearchJobs")
     /\ HasKey(call.data, "hasEquity") /\ Len(call.data) > 1
     /\ Get(call.data, "hasEquity") # Str("true")) =>
        result = _sqlForFilterSearchJobs(Without(call.data, "hasEquity"))

\* C8: the job builder given {hasEquity: "false"} alone fails with a
\* validation error instead of building a query with no predicate.
C8_LoneFalseEquityRejected ==
    (Ran("_sqlForFilterSearchJobs")
     /\ call.data = <<Entry("hasEquity", Str("false"))>>) =>
        result.err = "BadRequestError"

---------------------------------------------------------------------------
(* Properties of the repositories. *)

\* C9 (under FilterSpec): Company.filter with both minEmployees and
\* maxEmployees present, non-negative integers (0 included), and maxEmployees
\* < minEmployees fails with a BadRequestError before the builder runs and
\* before any statement is sent, whatever the store holds.
C9_MinAboveMaxRejected ==
    (/\ Ran("Company.filter")
     /\ HasKey(call.data, "minEmployees") /\ HasKey(call.data, "maxEmployees")
     /\ Get(call.data, "maxEmployees").n < Get(call.data, "minEmployees").n) =>
        /\ result.err = "BadRequestError"
        /\ built = <<>>
        /\ sent = <<>>

CompanyCheckText == "SELECT handle FROM companies WHERE handle = $1"
JobCheckText == "SELECT title FROM jobs WHERE company_handle=$1 AND title=$2"

\* C10 (under Spec): a create for a natural key that a stored row already
\* has (Company: handle; Job: companyHandle and title) fails with a
\* BadRequestError, sends the duplicate check and no INSERT, and leaves both
\* tables and the id serial as they were.
C10_DuplicateCreateRejected ==
    [][/\ (/\ call'.op = "Company.create"
           /\ \E c \in companies : c.handle = Get(call'.data, "handle")) =>
              /\ result' = Throw("BadRequestError",
                                 "Duplicate company: " \o Get(call'.data, "handle").s)
              /\ Len(sent') = 1 /\ sent'[1].text = CompanyCheckText
              /\ UNCHANGED <<companies, jobs, nextId>>
       /\ (/\ call'.op = "Job.create"
           /\ \E j \in jobs : /\ j.companyHandle = Get(call'.data, "companyHandle")
                              /\ j.title = Get(call'.data, "title")) =>
              /\ result'.err = "BadRequestError"
              /\ Len(sent') = 1 /\ sent'[1].text = JobCheckText
              /\ UNCHANGED <<companies, jobs, nextId>>
      ]_vars

\* C10 witness: Job.create was refused as a duplicate of a stored job that
\* has the same company and title and another salary.
C10_Witness ==
    /\ Ran("Job.create")
    /\ result.err = "BadRequestError"
    /\ \E j \in jobs : /\ j.companyHandle = Get(call.data, "companyHandle")
                       /\ j.title = Get(call.data, "title")
                       /\ j.salary # Get(call.data, "salary")
    /\ \E c \in companies : c.handle = Str("c2")

---------------------------------------------------------------------------
(* Properties of single repository calls, checked under CallSpec. *)

\* a payload the documentation of the update allows: it has an entry, and
\* its keys are fields of the entity other than its identity
ValidUpdate(data, fields) == Len(data) > 0 /\ AllKeysIn(data, fields)

CompanyFields == {"name", "description", "numEmployees", "logoUrl"}
JobFields == {"title", "salary", "equity"}

\* whether the pending or finished call names a company, a job, that the
\* store before the call does not hold
NoSuchCompany == ~\E c \in companies : c.handle = call.id
NoSuchJob == ~\E j \in jobs : j.id = call.id

\* C11 (under CallSpec): Company.update and Job.update with a valid
\* non-empty payload, and Company.remove and Job.remove, on an identity that
\* no stored row has end with a NotFoundError and leave both tables and the
\* id serial as they were.
C11_MissingIdentityNotFound ==
    [][/\ (/\ \/ call.op = "Company.remove"
              \/ call.op = "Company.update" /\ ValidUpdate(call.data, CompanyFields)
           /\ NoSuchCompany) =>
              /\ result' = Throw("NotFoundError", "No company: " \o call.id.s)
              /\ UNCHANGED <<companies, jobs, nextId>>
       /\ (/\ \/ call.op = "Job.remove"
              \/ call.op = "Job.update" /\ ValidUpdate(call.data, JobFields)
           /\ NoSuchJob) =>
              /\ result' = Throw("NotFoundError",
                                 "No job with ID: " \o ToString(call.id.n))
              /\ UNCHANGED <<companies, jobs, nextId>>
      ]_vars

\* C11 witness: Company.update with two valid fields named a handle that the
\* store, which holds another company, does not have, and ended not found.
C11_Witness ==
    /\ call.op = "Company.update"
    /\ result.err = "NotFoundError"
    /\ ValidUpdate(call.data, CompanyFields) /\ Len(call.data) = 2
    /\ NoSuchCompany
    /\ companies # {}

\* a call whose payload holds the key k
Holds(k) == HasKey(call.data, k)

\* a step that leaves every job with the id and the company it had: each
\* job after it was there before with that id and company, or is the one a
\* create inserted
JobIdentityKept ==
    \A k \in jobs' :
        \/ \E j \in jobs : j.id = k.id /\ j.companyHandle = k.companyHandle
        \/ call.op = "Job.create" /\ k.id = Num(nextId)

C15_HandleImmutable ==
    [][/\ (call.op = "Company.update" /\ Holds("handle")) =>
              /\ result'.err = "BadRequestError"
              /\ UNCHANGED <<companies, jobs, nextId>>
       /\ \A k \in companies' :
              \/ \E c \in companies : c.handle = k.handle
              \/ call.op = "Company.create" /\ k.handle = Get(call.data, "handle")
      ]_vars

\* C16 (under CallSpec): an update or a filter that ends with a
\* BadRequestError (empty update payload, id or companyHandle in a job
\* update payload, empty filter payload, unknown filter key, minEmployees
\* above maxEmployees) has sent no statement, and both tables and the id
\* serial are as they were before it.
C16_ValidationBeforeStore ==
    [][(/\ call.op \in {"Company.update", "Job.update", "Company.filter", "Job.filter"}
        /\ result'.err = "BadRequestError") =>
            /\ sent' = <<>>
            /\ UNCHANGED <<companies, jobs, nextId>>
      ]_vars

\* C16 witness: Company.filter refused minEmployees above maxEmployees
\* against a store that holds companies, with no statement sent.
C16_Witness ==
    /\ call.op = "Company.filter"
    /\ result.err = "BadRequestError"
    /\ HasKey(call.data, "minEmployees") /\ HasKey(call.data, "maxEmployees")
    /\ companies # {}
    /\ sent = <<>>

\* row with the fields the payload names set to the payload's values
Patched(row, data) ==
    [f \in DOMAIN row |-> IF HasKey(data, f) THEN Get(data, f) ELSE row[f]]

\* C17 (under CallSpec): a Company.update or Job.update that succeeds finds
\* one row with the identity it was called with, replaces it by that row
\* with each field the payload names set to the payload's value (null
\* included) and every other field as it was, leaves every other row of both
\* tables as it was, and returns the row as it is after the update (a job's
\* equity as the driver returns a NUMERIC).
C17_PartialUpdateFrame ==
    [][/\ (call.op = "Company.update" /\ result'.err = "none") =>
            \E old \in companies :
                /\ old.handle = call.id
                /\ companies' = (companies \ {old}) \cup {Patched(old, call.data)}
                /\ jobs' = jobs
                /\ result'.val = Patched(old, call.data)
       /\ (call.op = "Job.update" /\ result'.err = "none") =>
            \E old \in jobs :
                /\ old.id = call.id
                /\ jobs' = (jobs \ {old}) \cup {Patched(old, call.data)}
                /\ companies' = companies
                /\ result'.val = [Patched(old, call.data) EXCEPT
                                    !.equity = Numeric(Patched(old, call.data).equity)]
      ]_vars

\* C17 witness: Job.update set the equity of one of two stored jobs to null
\* and its salary to 10, and returned the job with the title it had.
C17_Witness ==
    /\ call.op = "Job.update"
    /\ result.err = "none"
    /\ call.data = <<Entry("equity", Null), Entry("salary", Num(10))>>
    /\ result.val.equity = Null /\ result.val.title = Str("dev")
    /\ Cardinality(jobs) = 2

\* C18 (under CallSpec): Job.getJobsOfCompany(handle) returns the id, title,
\* salary and equity of every stored job of the company handle, each once
\* and in the order of their titles, and ends with a NotFoundError when the
\* store holds no such job, be the company stored or not.
C18_JobsOfCompany ==
    Ran("Job.getJobsOfCompany") =>
        LET found == { j \in jobs : j.companyHandle = call.id }
        IN IF found = {}
           THEN result = Throw("NotFoundError", "No jobs at: " \o call.id.s)
           ELSE /\ result.err = "none"
                /\ Len(result.val) = Cardinality(found)
                /\ Returned = { [id |-> j.id, title |-> j.title, salary |-> j.salary,
                                 equity |-> Numeric(j.equity)] : j \in found }
                /\ \A i, j \in 1..Len(result.val) :
                      i < j => TitleRank(result.val[i].title)
                                 <= TitleRank(result.val[j].title)

\* C18 witness: the two jobs of a company came back with the job of the
\* higher id first, as its title sorts first.
C18_Witness ==
    /\ Ran("Job.getJobsOfCompany")
    /\ result.err = "none"
    /\ Len(result.val) = 2
    /\ result.val[1].id = Num(2) /\ result.val[2].id = Num(1)

---------------------------------------------------------------------------
(* Properties of sequences of repository calls, checked under Spec. *)

\* C12 (under Spec): a get that follows a successful create at once, by the
\* identity the create returned (Company: handle; Job: id), succeeds; for a
\* company it returns the record the create returned, for a job that record
\* less its store-assigned id.
C12_CreateThenGet ==
    /\ (/\ Ran("Company.get")
        /\ call.created.op = "Company.create"
        /\ call.data = call.created.val.handle) =>
            result = Return(call.created.val)
    /\ (/\ Ran("Job.get")
        /\ call.created.op = "Job.create"
        /\ call.data = call.created.val.id) =>
            result = Return([title |-> call.created.val.title,
                             salary |-> call.created.val.salary,
                             equity |-> call.created.val.equity,
                             companyHandle |-> call.created.val.companyHandle])

\* C12 witness: Job.get returned the second job, which the create before it
\* had returned with the equity "0" and no salary.
C12_Witness ==
    /\ Ran("Job.get")
    /\ call.created.op = "Job.create"
    /\ call.data = call.created.val.id
    /\ call.data = Num(2)
    /\ result.err = "none"
    /\ result.val.equity = Str("0") /\ result.val.salary = Null

---------------------------------------------------------------------------
(* Properties of a filter call against a store, checked under FilterSpec. *)

\* C13 (under FilterSpec): Company.filter and Job.filter never return an
\* empty list; when the store ran the statement and no row matched it the
\* call ends with a NotFoundError, and when rows matched it the call returns
\* those rows, each once.
C13_FilterNeverEmpty ==
    /\ (Ran("Company.filter") \/ Ran("Job.filter")) /\ result.err = "none" =>
            Len(result.val) > 0
    /\ Ran("Company.filter") /\ Len(sent) = 1 /\ result.err # "StoreFault" =>
            LET builder == _sqlForFilterSearchCompanies(call.data).val
                matched == Selected(companies, builder.whereQueries, builder.searchValues)
            IN IF matched = {}
               THEN result.err = "NotFoundError"
               ELSE /\ result.err = "none"
                    /\ Len(result.val) = Cardinality(matched)
                    /\ Returned = matched
    /\ Ran("Job.filter") /\ Len(sent) = 1 /\ result.err # "StoreFault" =>
            LET builder == _sqlForFilterSearchJobs(call.data).val
                matched == Selected(jobs, builder.whereQueries, builder.searchValues)
            IN IF matched = {}
               THEN result.err = "NotFoundError"
               ELSE /\ result.err = "none"
                    /\ Len(result.val) = Cardinality(matched)
                    /\ Returned = { JobFilterRecord(j) : j \in matched }

\* C13 witness: Job.filter ended not found against a store that holds jobs,
\* none of which matched the statement it sent.
C13_Witness ==
    /\ Ran("Job.filter")
    /\ result.err = "NotFoundError"
    /\ Len(sent) = 1
    /\ jobs # {}

---------------------------------------------------------------------------
(* Properties of sequences of requests, checked under RouteSpec. *)

\* the routes that create, update and delete
Gated ==
    {"POST /companies", "PATCH /companies/:handle", "DELETE /companies/:handle",
     "POST /jobs", "PATCH /jobs/:id", "DELETE /jobs/:id"}

\* whether the request came from an admin
FromAdmin(req) ==
    /\ HasKey(req.locals, "user")
    /\ Get(Get(req.locals, "user"), "isAdmin") = Bool(TRUE)

\* C19 (under RouteSpec): a POST, PATCH or DELETE request to the company or
\* job routes that comes from no user or from a user who is not an admin is
\* answered with an UnauthorizedError before the handler validated anything
\* or called the repository, whatever its body and path parameter, and
\* leaves the store as it was; no GET request is answered with an
\* UnauthorizedError, whoever sent it.
C19_AdminGate ==
    [][/\ (call'.op \in Gated /\ ~FromAdmin(call')) =>
              /\ result' = Throw("UnauthorizedError", "Unauthorized")
              /\ built' = <<>> /\ sent' = <<>>
              /\ UNCHANGED <<companies, jobs, nextId>>
       /\ call'.op \notin Gated =>
              /\ result'.err # "UnauthorizedError"
              /\ built' # <<>> \/ result'.err = "BadRequestError"
      ]_vars

\* C19 witness: a user who is not an admin sent PATCH /jobs/many with a body
\* that names the id, while the store held jobs, and got an
\* UnauthorizedError.
C19_Witness ==
    /\ call.op = "PATCH /jobs/:id"
    /\ HasKey(call.locals, "user")
    /\ call.id = Str("many") /\ HasKey(call.data, "id")
    /\ result.err = "UnauthorizedError"
    /\ jobs # {}

---------------------------------------------------------------------------
(* Properties of two creates in flight, checked under RaceSpec. *)

\* the natural key of the create of caller p
NaturalKey(p) ==
    IF call[p].op = "Company.create"
    THEN <<"company", Get(call[p].data, "handle")>>
    ELSE <<"job", Get(call[p].data, "companyHandle"), Get(call[p].data, "title")>>

\* caller p has sent its INSERT
Inserted(p) == Len(sent[p]) = 2

\* C20 (under RaceSpec): the duplicate check and the INSERT of a create are
\* two steps with nothing to bind them: a caller whose check found no
\* duplicate sends its INSERT at its next step whatever the store holds by
\* then, so that two creates of one natural key can both pass the check and
\* both send the INSERT.
C20_CheckThenInsertApart ==
    [][\A p \in Procs :
          (call[p].pc = "insert" /\ call'[p].pc # "insert") =>
              /\ Len(sent'[p]) = 2
              /\ sent'[p][1] = sent[p][1]
              /\ result[p] = Pending
      ]_vars

\* C20 witness: two Job.create calls for one company and title both found
\* no duplicate and both sent their INSERT, and the store holds two jobs of
\* that company and title.
C20_Witness ==
    /\ call[1].op = "Job.create"
    /\ NaturalKey(1) = NaturalKey(2)
    /\ Inserted(1) /\ Inserted(2)
    /\ \E j, k \in jobs : /\ j.id # k.id
                          /\ j.title = k.title
                          /\ j.companyHandle = k.companyHandle

---------------------------------------------------------------------------
(* Properties of what a filter call returns, checked under FilterSpec. *)

\* whether the company c is one the search payload d asks for
Wanted(c, d) ==
    /\ HasKey(d, "minEmployees") =>
            c.numEmployees # Null /\ c.numEmployees.n >= Get(d, "minEmployees").n
    /\ HasKey(d, "maxEmployees") =>
            c.numEmployees # Null /\ c.numEmployees.n <= Get(d, "maxEmployees").n
    /\ HasKey(d, "nameLike") =>
            Contains(LowerLetters(c.name.s), LowerLetters(Get(d, "nameLike").s))

\* C21 (under FilterSpec): a Company.filter call that returns, returns
\* exactly the stored companies whose numEmployees is at least minEmployees
\* and at most maxEmployees (each when given, bounds included) and whose
\* name contains nameLike whatever the case (when given), each once and in
\* the order of their names; a company without numEmployees meets no bound.
C21_CompanyFilterResult ==
    Ran("Company.filter") /\ result.err = "none" =>
        /\ Returned = { c \in companies : Wanted(c, call.data) }
        /\ Len(result.val) = Cardinality(Returned)
        /\ \A i, j \in 1..Len(result.val) :
                i < j => NameRank(result.val[i].name) <= NameRank(result.val[j].name)

\* C21 witness: a search by both bounds and a name returned one company and
\* left out another, which has no numEmployees.
C21_Witness ==
    /\ Ran("Company.filter")
    /\ result.err = "none"
    /\ HasKey(call.data, "minEmployees")
    /\ HasKey(call.data, "maxEmployees")
    /\ HasKey(call.data, "nameLike")
    /\ \E c \in companies : c.numEmployees = Null /\ c \notin Returned

---------------------------------------------------------------------------
(* middleware/auth.js on its own: each step hands one request to one       *)
(* middleware.  call.locals is res.locals as the middleware finds it,      *)
(* call.data the headers of the request, call.id req.params.username;      *)
(* built lists the calls of next, result is what next was called with: an  *)
(* error, or no error and then result.val is res.locals at that moment.    *)

\* obj after obj[k] = v
With(obj, k, v) ==
    IF HasKey(obj, k)
    THEN [i \in 1..Len(obj) |-> IF obj[i].k = k THEN Entry(k, v) ELSE obj[i]]
    ELSE Append(obj, Entry(k, v))

\* a token is the payload it carries and the key it was signed with; the
\* empty string carries nothing
NoToken == [key |-> "", payload |-> <<>>]

Payloads ==
    { <<Entry("username", Str("u1")), Entry("isAdmin", Bool(FALSE))>>,
      <<Entry("username", Str("admin")), Entry("isAdmin", Bool(TRUE))>> }

Tokens == { [key |-> k, payload |-> p] : k \in {"SECRET_KEY", "wrong"}, p \in Payloads }

\* an authorization header is what precedes its token and the token
Schemes == {"", "Bearer ", "bearer ", "Token "}

Headers ==
    { <<>> } \cup
    { <<Entry("authorization", [scheme |-> s, token |-> t])>> :
        s \in Schemes, t \in Tokens \cup {NoToken} }

\* authHeader.replace(/^[Bb]earer /, "").trim() verified by jwt.verify with
\* SECRET_KEY: its payload, or a throw
Verify(authHeader) ==
    IF /\ authHeader.scheme \in {"", "Bearer ", "bearer "}
       /\ authHeader.token # NoToken
       /\ authHeader.token.key = "SECRET_KEY"
    THEN Return(authHeader.token.payload)
    ELSE Throw("JsonWebTokenError", "invalid token")

\* authenticateJWT setting res.locals.user to the payload of any token it
\* can read, verified or not (a fault to be detected)
authenticateJWTDecoded(headers, locals) ==
    IF HasKey(headers, "authorization")
       /\ Get(headers, "authorization").token # NoToken
    THEN Return(With(locals, "user", Get(headers, "authorization").token.payload))
    ELSE Return(locals)

authenticateJWT(headers, locals) ==
    IF /\ HasKey(headers, "authorization")
       /\ Get(headers, "authorization") # [scheme |-> "", token |-> NoToken]
    THEN LET verified == Verify(Get(headers, "authorization"))
         IN IF verified.err = "none"
            THEN Return(With(locals, "user", verified.val))
            ELSE Return(locals)
    ELSE Return(locals)

\* ensureUserMatchesReqOrAdmin asking for the username and the admin flag
\* at once (a fault to be detected)
ensureUserMatchesReqOrAdminBoth(locals, username) ==
    IF \/ ~HasKey(locals, "user")
       \/ Get(Get(locals, "user"), "username") # username
       \/ Get(Get(locals, "user"), "isAdmin") # Bool(TRUE)
    THEN Throw("UnauthorizedError", "Unauthorized")
    ELSE Return(Undefined)

ensureUserMatchesReqOrAdmin(locals, username) ==
    IF \/ ~HasKey(locals, "user")
       \/ /\ Get(Get(locals, "user"), "username") # username
          /\ Get(Get(locals, "user"), "isAdmin") # Bool(TRUE)
    THEN Throw("UnauthorizedError", "Unauthorized")
    ELSE Return(Undefined)

\* the res.locals a middleware can find: those of Locals, users whose
\* isAdmin is not a boolean, and a user whose token names no username
AuthLocals ==
    Locals \cup
    { <<Entry("user", <<Entry("username", Str("u1")), Entry("isAdmin", v)>>)>> :
        v \in {Str("true"), Num(1), Null} } \cup
    { <<Entry("user", <<Entry("isAdmin", Bool(FALSE))>>)>> }

Usernames == {Str("u1"), Str("u2"), Str("admin"), Undefined}

\* the middleware answered the request req by calling next: with the error
\* it threw, or with no error and res.locals as it stands
Passes(req, res, locals) ==
    /\ call' = req
    /\ result' = IF res.err = "none" THEN Return(locals) ELSE res
    /\ built' = <<"next">>
    /\ sent' = <<>>
    /\ UNCHANGED <<companies, jobs, nextId>>

RunAuthenticateJWT ==
    \E headers \in Headers, locals \in AuthLocals :
        LET res == authenticateJWT(headers, locals)
        IN Passes(Request("authenticateJWT", locals, Undefined, headers),
                  res, res.val)

RunEnsureUserIsAdmin ==
    \E locals \in AuthLocals :
        Passes(Request("ensureUserIsAdmin", locals, Undefined, <<>>),
               ensureUserIsAdmin(locals), locals)

RunEnsureUserMatchesReqOrAdmin ==
    \E locals \in AuthLocals, username \in Usernames :
        Passes(Request("ensureUserMatchesReqOrAdmin", locals, username, <<>>),
               ensureUserMatchesReqOrAdmin(locals, username), locals)

AuthNext ==
    \/ RunAuthenticateJWT
    \/ RunEnsureUserIsAdmin
    \/ RunEnsureUserMatchesReqOrAdmin

AuthSpec == Init /\ [][AuthNext]_vars

---------------------------------------------------------------------------
(* Properties of the middleware, checked under AuthSpec. *)

\* next was called once, with no error
NextPlain == built = <<"next">> /\ result.err = "none"

\* next was called once, with an UnauthorizedError
NextUnauthorized ==
    built = <<"next">> /\ result = Throw("UnauthorizedError", "Unauthorized")

\* C22 (under AuthSpec): ensureUserIsAdmin calls next once: with no error
\* when res.locals.user is there and its isAdmin is the boolean true, and
\* with an UnauthorizedError in every other case.
C22_AdminOnly ==
    Ran("ensureUserIsAdmin") =>
        IF \E i \in 1..Len(call.locals) :
              /\ call.locals[i].k = "user"
              /\ \E j \in 1..Len(call.locals[i].v) :
                    call.locals[i].v[j] = Entry("isAdmin", Bool(TRUE))
        THEN NextPlain
        ELSE NextUnauthorized

\* C22 witness: ensureUserIsAdmin refused a user whose isAdmin is the string
\* "true".
C22_Witness ==
    /\ Ran("ensureUserIsAdmin")
    /\ HasKey(call.locals, "user")
    /\ Get(Get(call.locals, "user"), "isAdmin") = Str("true")
    /\ NextUnauthorized

\* the token of the request, when its authorization header is one that
\* jwt.verify accepts under SECRET_KEY
GoodToken ==
    { h.token : h \in { call.data[i].v : i \in 1..Len(call.data) } } \cap
    { t \in Tokens : t.key = "SECRET_KEY" }

\* C23 (under AuthSpec): authenticateJWT calls next once and never with an
\* error, whether the request has no authorization header, a token that
\* verifies or one that does not; res.locals.user is the payload of the
\* token when the token verifies, and res.locals is as it was otherwise.
C23_AuthenticateNeverFails ==
    Ran("authenticateJWT") =>
        /\ NextPlain
        /\ IF /\ GoodToken # {}
              /\ call.data[1].v.scheme \in {"", "Bearer ", "bearer "}
           THEN /\ Keys(result.val) = <<"user">>
                /\ \A t \in GoodToken : result.val[1].v = t.payload
           ELSE result.val = call.locals

\* C23 witness: a request whose token was signed with another key went on
\* without an error and with the res.locals it came with.
C23_Witness ==
    /\ Ran("authenticateJWT")
    /\ Len(call.data) = 1
    /\ call.data[1].v.scheme = "Bearer "
    /\ call.data[1].v.token.key = "wrong"
    /\ call.locals = <<>>
    /\ NextPlain
    /\ result.val = <<>>

\* the users of the request: the value of res.locals.user, if there is one
Users == { call.locals[i].v : i \in { j \in 1..Len(call.locals) : call.locals[j].k = "user" } }

\* C24 (under AuthSpec): ensureUserMatchesReqOrAdmin calls next with no
\* error when a user is logged in whose username is req.params.username or
\* whose isAdmin is the boolean true, and with an UnauthorizedError in every
\* other case.
C24_SelfOrAdmin ==
    Ran("ensureUserMatchesReqOrAdmin") =>
        IF \E u \in Users :
              \/ \E j \in 1..Len(u) : u[j] = Entry("isAdmin", Bool(TRUE))
              \/ \E j \in 1..Len(u) : u[j] = Entry("username", call.id)
              \/ call.id = Undefined /\ \A j \in 1..Len(u) : u[j].k # "username"
        THEN NextPlain
        ELSE NextUnauthorized

\* C24 witness: a user who is no admin passed for their own username.
C24_Witness ==
    /\ Ran("ensureUserMatchesReqOrAdmin")
    /\ \E u \in Users :
          /\ Get(u, "isAdmin") = Bool(FALSE)
          /\ Get(u, "username") = call.id
    /\ NextPlain

---------------------------------------------------------------------------
(* Properties of the job routes, checked under RouteSpec. *)

\* the routes of one job
JobRoutes == {"GET /jobs/:id", "PATCH /jobs/:id", "DELETE /jobs/:id"}

\* whether the path parameter id is the spelling of a number
SpellsNumber(id) == id.s = Fraction.s \/ \E m \in Numerals : ToString(m) = id.s

\* whether the handler of the request called the repository
ReachedRepository(invoked) ==
    \E i \in 1..Len(invoked) : invoked[i] \in {"Job.get", "Job.update", "Job.remove"}

\* C25 (under RouteSpec): a request to GET, PATCH or DELETE /jobs/:id that
\* passed the admin gate of its route, with an id that spells no number,
\* ends with a BadRequestError before the body is validated and before the
\* repository is called, the store neither read nor changed; with an id
\* that spells a number and is the id of no job, the repository is called
\* and the request ends not found.
C25_BadIdRejected ==
    [][call'.op \in JobRoutes
       /\ (call'.op = "GET /jobs/:id" \/ FromAdmin(call')) =>
            /\ ~SpellsNumber(call'.id) =>
                    /\ result'.err = "BadRequestError"
                    /\ built' = <<>> /\ sent' = <<>>
                    /\ UNCHANGED <<companies, jobs, nextId>>
            /\ (/\ SpellsNumber(call'.id)
                /\ ReachedRepository(built')
                /\ ~\E j \in jobs : ToStr(j.id) = call'.id.s) =>
                    result'.err = "NotFoundError"
      ]_vars

\* the jobs a GET /jobs request was answered with
JobsSent == LET list == Get(result.val, "jobs") IN { list[i] : i \in 1..Len(list) }

\* C26 (under RouteSpec): a search GET /jobs with hasEquity=true, alone or
\* with other filters, that is answered with jobs, is answered only with
\* jobs whose equity is more than 0: no job with equity 0 or without equity
\* is among them.
C26_EquityFlagOn ==
    /\ call.op = "GET /jobs"
    /\ Get(call.data, "hasEquity") = Str("true")
    /\ result.err = "none"
    => \A job \in JobsSent :
            job.equity # Null /\ StringToNumber(job.equity.s).n > 0

\* C27 (under RouteSpec): GET /companies/:handle for a handle a company has
\* is answered with that company and the list of its jobs, each once and in
\* the order of their titles, the empty list when it has none; it ends not
\* found when no company has the handle, and only then.
C27_CompanyWithJobs ==
    call.op = "GET /companies/:handle" =>
        IF \E c \in companies : c.handle = call.id
        THEN /\ result.err = "none"
             /\ LET company == Get(result.val, "company")
                    theirs == { j \in jobs : j.companyHandle = call.id }
                IN /\ \E c \in companies :
                        /\ c.handle = call.id
                        /\ \A f \in DOMAIN c : company[f] = c[f]
                   /\ Len(company.jobs) = Cardinality(theirs)
                   /\ { company.jobs[i].id : i \in 1..Len(company.jobs) }
                        = { j.id : j \in theirs }
                   /\ \A i, j \in 1..Len(company.jobs) :
                        i < j => TitleRank(company.jobs[i].title)
                                    <= TitleRank(company.jobs[j].title)
        ELSE result.err = "NotFoundError"

\* C27 witness: a company without jobs was sent with the empty list while
\* the other company has two jobs.
C27_Witness ==
    /\ call.op = "GET /companies/:handle"
    /\ result.err = "none"
    /\ Get(result.val, "company").jobs = <<>>
    /\ Cardinality(jobs) = 2

---------------------------------------------------------------------------
(* Properties of the stored jobs, checked under CallSpec. *)

\* C28 (under CallSpec): after a Job.create, Job.update or Job.remove call
\* on a store without duplicates, no two stored jobs have the same
\* companyHandle and title.
C28_NaturalKeyUnique ==
    \A a, b \in jobs :
        a.companyHandle = b.companyHandle /\ a.title = b.title => a = b

---------------------------------------------------------------------------
(* Properties of the queries the filter builders return, checked under     *)
(* BuilderSpec.                                                             *)

\* the values a filter builder returned beside its WHERE clause
ValuesBuilt ==
    IF call.op = "sqlForFilterSearchCompanies"
    THEN result.val.values ELSE result.val.searchValues

\* C29 (under BuilderSpec): a filter builder, of companies or of jobs, that
\* returns without an error returns a WHERE clause with at least one
\* predicate, whose placeholders are $1..$n in the order they appear, n
\* being the number of values returned: the i-th predicate names $i.
C29_FilterQueryWellFormed ==
    IsFilterBuilder(call.op) /\ result # Pending /\ result.err = "none" =>
        /\ Len(result.val.whereQueries) >= 1
        /\ Len(result.val.whereQueries) = Len(ValuesBuilt)
        /\ \A i \in 1..Len(result.val.whereQueries) :
            /\ result.val.whereQueries[i].param = i
            /\ result.val.whereQueries[i].text
                 = result.val.whereQueries[i].col \o " "
                   \o result.val.whereQueries[i].op \o " $" \o ToString(i)

---------------------------------------------------------------------------
(* The life of an entity: repository calls one after another from the      *)
(* empty store, each call run to its end before the next starts.  call.gone *)
(* holds the identities (handles, job ids) that a remove deleted and no     *)
(* create has inserted since.                                               *)

LifeCall(op, id, data, gone) ==
    [jsToSql |-> <<>>, op |-> op, id |-> id, data |-> data, gone |-> gone]

LifeInit ==
    /\ companies = {}
    /\ jobs = {}
    /\ nextId = 1
    /\ call = LifeCall("none", Undefined, <<>>, {})
    /\ result = Pending
    /\ built = <<>>
    /\ sent = <<>>

\* the call op(id, data) ran to its end with outcome out
Lives(op, id, data, out) ==
    /\ call' = LifeCall(op, id, data,
                  IF out.result.err # "none" THEN call.gone
                  ELSE IF op \in {"Company.remove", "Job.remove"}
                  THEN call.gone \cup {id}
                  ELSE IF op = "Company.create"
                  THEN call.gone \ {Get(data, "handle")}
                  ELSE call.gone)
    /\ companies' = out.companies
    /\ jobs' = out.jobs
    /\ nextId' = out.nextId
    /\ result' = out.result
    /\ built' = out.built
    /\ sent' = out.sent

LifeHandles == { Str(h) : h \in Handles }
LifeIds == { Num(n) : n \in 1..MaxJobId }

LifeCompanyCreate ==
    \E data \in { NewCompany("c1", "Net", Num(5)), NewCompany("c2", "Anet", Null) } :
    \E out \in Company_create(data) :
        Lives("Company.create", Undefined, data, out)

LifeCompanyGet ==
    \E h \in LifeHandles : \E out \in Company_get(h) :
        Lives("Company.get", h, <<>>, out)

LifeCompanyUpdate ==
    \E h \in LifeHandles :
    \E data \in { <<Entry("name", Str("Cove"))>> }
                \cup { <<Entry("handle", to)>> : to \in LifeHandles } :
    \E out \in Company_update(h, data) :
        Lives("Company.update", h, data, out)

LifeCompanyRemove ==
    \E h \in LifeHandles : \E out \in Company_remove(h) :
        Lives("Company.remove", h, <<>>, out)

LifeJobCreate ==
    \E data \in { NewJob("dev", Num(50000), Num(1), "c1") } :
    \E out \in Job_create(data) :
        /\ out.nextId <= MaxJobId + 1
        /\ Lives("Job.create", Undefined, data, out)

LifeJobGet ==
    \E id \in LifeIds : \E out \in Job_get(id) :
        Lives("Job.get", id, <<>>, out)

LifeJobUpdate ==
    \E id \in LifeIds : \E data \in { <<Entry("title", Str("qa"))>> } :
    \E out \in Job_update(id, data) :
        Lives("Job.update", id, data, out)

LifeJobRemove ==
    \E id \in LifeIds : \E out \in Job_remove(id) :
        Lives("Job.remove", id, <<>>, out)

LifeNext ==
    \/ LifeCompanyCreate
    \/ LifeCompanyGet
    \/ LifeCompanyUpdate
    \/ LifeCompanyRemove
    \/ LifeJobCreate
    \/ LifeJobGet
    \/ LifeJobUpdate
    \/ LifeJobRemove

LifeSpec == LifeInit /\ [][LifeNext]_vars

---------------------------------------------------------------------------
(* Properties of the life of an entity, checked under LifeSpec. *)

\* C30 (under LifeSpec): a Company.remove or Job.remove that succeeds
\* deletes the row of the identity given and no other row of its table
\* (Job.remove returns the id deleted), and from then on, until a create
\* inserts that identity again, every get, update and remove of that
\* identity ends not found.
C30_RemovedStaysGone ==
    [][/\ (call'.op = "Company.remove" /\ result'.err = "none") =>
            /\ companies' = { c \in companies : c.handle # call'.id }
            /\ companies' # companies
            /\ \A j \in jobs : j.companyHandle # call'.id => j \in jobs'
       /\ (call'.op = "Job.remove" /\ result'.err = "none") =>
            /\ jobs' = { j \in jobs : j.id # call'.id }
            /\ jobs' # jobs
            /\ companies' = companies
            /\ result'.val.id = call'.id
       /\ (/\ call'.op \in {"Company.get", "Company.update", "Company.remove",
                            "Job.get", "Job.update", "Job.remove"}
           /\ call'.id \in call.gone) =>
            result'.err = "NotFoundError"
      ]_vars

=============================================================================
